---- MODULE Spec2Model ----
(***************************************************************************)
(* The game-session engine of talatrivia: one trivia, its participations,  *)
(* its answers, and the request handlers that read and write them.         *)
(*                                                                         *)
(* Every handler runs in its own database session.  A handler is modelled  *)
(* as the sequence of its storage round trips: each action below is one    *)
(* group of reads, or one commit, of one handler, so that two requests in  *)
(* flight interleave at the awaits of the code.  The rows a handler has    *)
(* loaded stay in its session; a later repository update() writes only the *)
(* columns whose value differs from the loaded one, as the ORM's unit of   *)
(* work does, so a request carries the write set it will flush             *)
(* (req[i].loc.ws).  The response a step sends is visible in the state     *)
(* that step produces (response) and is gone after the next step.          *)
(*                                                                         *)
(* Timestamps that a handler compares with the clock (question_started_at, *)
(* last_seen_at) keep their value.  Timestamps that no handler reads back  *)
(* (joined_at, ready_at, started_at, finished_at, answered_at) are kept as *)
(* NULL or as Stamp, "some instant".                                       *)
(*                                                                         *)
(* The participations table has the columns the participation repository   *)
(* reads and writes (last_seen_at, fifty_fifty_used,                        *)
(* fifty_fifty_question_id among them).                                     *)
(*                                                                         *)
(* The specifications share the actions.  Spec is the engine on a server   *)
(* that runs one request to its end before it takes the next.  LobbySpec   *)
(* and GameSpec let requests overlap, LobbySpec over the handlers of the   *)
(* lobby phase from an empty database, GameSpec over the handlers of the   *)
(* game phase from a trivia that has just been started.  LifelineSpec adds *)
(* the 50/50 lifeline to the game phase and RankingSpec the ranking.       *)
(* SseSpec is the event hub by itself: tickets, subscriptions, streams and *)
(* a publisher.  EventSpec is the engine, one request at a time, in front  *)
(* of a subscribed client.  CommandSpec lets the commands that write the   *)
(* trivia row (Join, Start, Advance, Reset) overlap from an empty          *)
(* database.  ScoringSpec is a started trivia with a question of each      *)
(* difficulty, where a Submit takes its answered_at in a step of its own   *)
(* ahead of its reads.  FiftySpec calls the lifeline, one request at a     *)
(* time, on a trivia whose last question has fewer than four options.      *)
(* PresenceSpec lets Heartbeats overlap the Submits and lifeline uses of   *)
(* the same player.  ViewSpec is the lobby with its two views, one request *)
(* at a time, over three accounts of which two share a name.  TicketSpec   *)
(* is the ticket store with time passing and every stream scheduled        *)
(* fairly.  OrderSpec lets Joins and Starts overlap in front of a          *)
(* subscriber that has not yet read its queue.                             *)
(*                                                                         *)
(* The event hub lives in one event loop.  Taking the uncontended lock and *)
(* putting on an unbounded queue do not suspend, so a broadcast, a         *)
(* subscription and a ticket validation are one step each.  Every event    *)
(* handed to a client carries the number of its publication (seq), which   *)
(* the code does not have.                                                 *)
(***************************************************************************)
EXTENDS Integers, Sequences, FiniteSets, TLC

(* ------------------------------ bounds -------------------------------- *)
NumProcs == 2          \* requests in flight at the same time
NumPlayers == 2        \* player accounts
MaxBindings == 2       \* questions bound to the trivia
MaxTicks == 1          \* times the server clock is seen to move
NumOptions == 4        \* options of a question
MaxSubmitted == 2      \* options of a question that players submit
NumTrivias == 2        \* trivia ids that tickets and subscriptions name
NumClients == 2        \* subscriptions made
MaxTickets == 2        \* tickets issued
MaxBroadcasts == 3     \* events published by the free-standing publisher
MaxEvents == 7         \* events published before the server stops admitting
MaxSseTicks == 3       \* keepalive periods the clock runs through
MaxScored == 3         \* questions of the trivia whose answers are scored
MaxPresenceTicks == 2  \* presence TTLs the clock of the lobby runs through

(* ------------------------- program constants -------------------------- *)
PRESENCE_TTL_SECONDS == 15
time_limit_seconds == 30
expires_in_seconds == 60
timeout == 30

Null == -1             \* a NULL timestamp / question id column
Stamp == 0             \* a NOT NULL timestamp whose value is never read

Procs == 1..NumProcs
Admin == 0             \* created_by_user_id of the trivia
Players == 1..NumPlayers
TriviaIds == 1..NumTrivias
ClientIds == 1..NumClients
Tokens == 1..MaxTickets

\* The clock is observed one time limit apart: between two instants a
\* question times out and a silent player's presence lapses.
Instants == {k * time_limit_seconds : k \in 0..MaxTicks}
PresenceInstants == {k * PRESENCE_TTL_SECONDS : k \in 0..MaxPresenceTicks}

\* The stream clock is observed one keepalive timeout apart.
SseInstants == {k * timeout : k \in 0..MaxSseTicks}

VARIABLES
  now,             \* the server clock, datetime.now(UTC), in seconds
  nBindings,       \* number of trivia_questions rows of the trivia
  trivia,          \* the trivias row, NoRow before the trivia is created
  participations,  \* the participations rows, in insertion order
  answers,         \* the answers rows
  req,             \* the requests in flight, one per slot
  response,        \* the response sent by the step just taken, if any
  serial,          \* TRUE: the server admits one request at a time
  advances,        \* Advance commands completed since the last successful
                   \* Start; Null when no Start has succeeded since
  tickets,         \* SSEManager._tickets, by token
  clients,         \* SSEManager._clients: the subscribed clients by trivia
  queue,           \* SSEClient.queue of every client
  stream,          \* the SSEClient and the position of its stream generator
  published        \* events handed to clients so far; numbers the events

vars == <<now, nBindings, trivia, participations, answers, req, response,
          serial, advances, tickets, clients, queue, stream, published>>

\* the database side and the event side of the state
dbVars == <<nBindings, trivia, participations, answers, req, response,
            serial, advances>>
sseVars == <<tickets, clients, queue, stream, published>>

(* ------------------------------ rows ---------------------------------- *)
NoRow == [id |-> 0]

InvitedRow(pid, u) ==
  [id |-> pid, user |-> u, status |-> "INVITED", score |-> 0,
   joined_at |-> Null, ready_at |-> Null, last_seen_at |-> Null,
   fifty_fifty_used |-> FALSE, fifty_fifty_question_id |-> Null]

NewTrivia ==
  [id |-> 1, status |-> "DRAFT", current_question_index |-> 0,
   question_started_at |-> Null, started_at |-> Null, finished_at |-> Null]

IdleReq == [pc |-> "idle", user |-> 0, loc |-> NoRow]

\* bindings: position k (0-based) carries question k+1; binding id = k+1
BindingAt(k) == IF k >= 0 /\ k < nBindings
                THEN [id |-> k + 1, question_id |-> k + 1,
                      time_limit_seconds |-> time_limit_seconds]
                ELSE NoRow

QuestionDifficulty(q) ==
  CASE q % 3 = 1 -> "EASY" [] q % 3 = 2 -> "MEDIUM" [] OTHER -> "HARD"

\* points that start at 0 for EASY
points_for_from_zero(difficulty) ==
  CASE difficulty = "EASY" -> 0
    [] difficulty = "MEDIUM" -> 1
    [] difficulty = "HARD" -> 2
    [] OTHER -> 0

points_for(difficulty) ==
  CASE difficulty = "EASY" -> 1
    [] difficulty = "MEDIUM" -> 2
    [] difficulty = "HARD" -> 3
    [] OTHER -> 0

\* questions.py 94-106: a question has two options or more, one of them
\* correct; the questions past MaxBindings have one option fewer
OptionCount(q) == IF q <= MaxBindings THEN NumOptions ELSE NumOptions - 1

\* options of question q: <<q, 1>> .. <<q, OptionCount(q)>>; the first is
\* correct
OptionsOf(q) == {<<q, j>> : j \in 1..OptionCount(q)}
OptionIsCorrect(o) == o[2] = 1
AllOptions == UNION {OptionsOf(q) : q \in 1..MaxBindings}

\* the options players send with a Submit: the correct one and incorrect ones
SubmittedOptions == {o \in AllOptions : o[2] <= MaxSubmitted}

(* --------------------------- repositories ----------------------------- *)
Pids == 1..Len(participations)

\* participation_repository.get_by_trivia_and_user
get_by_trivia_and_user(u) ==
  IF \E p \in Pids : participations[p].user = u
  THEN participations[CHOOSE p \in Pids : participations[p].user = u]
  ELSE NoRow

\* models/participation.py uq_trivia_user: may a row of user u be inserted
uq_trivia_user(rows, u) == \A p \in DOMAIN rows : rows[p].user # u

\* an update() that writes every column of the handler's copy
Changed_all(loaded, obj) == obj

\* What a repository update() will flush: the handler changed its copy of
\* the loaded row from `loaded` to `obj`; the unit of work emits an UPDATE of
\* the columns whose value differs from the loaded one, and of no other.
Changed(loaded, obj) ==
  [c \in {d \in DOMAIN obj : obj[d] # loaded[d]} |-> obj[c]]

\* the UPDATE itself, applied to the row as it is in the database by then
Flush(row, ws) ==
  [c \in DOMAIN row |-> IF c \in DOMAIN ws THEN ws[c] ELSE row[c]]

\* COALESCE(SUM(earned_points), 0) over a set of answers
RECURSIVE SumPoints(_)
SumPoints(S) ==
  IF S = {} THEN 0
  ELSE LET a == CHOOSE x \in S : TRUE IN a.earned_points + SumPoints(S \ {a})

AnswersOf(pid) == {a \in answers : a.participation_id = pid}

\* answer_repository.get_by_participation_and_trivia_question
get_by_participation_and_trivia_question(pid, tq) ==
  IF \E a \in answers : a.participation_id = pid /\ a.trivia_question_id = tq
  THEN CHOOSE a \in answers :
         a.participation_id = pid /\ a.trivia_question_id = tq
  ELSE NoRow

\* the answers table without its unique constraint
uq_participation_trivia_question_dropped(ans, a) == TRUE

\* models/answer.py uq_participation_trivia_question: may row a be inserted
uq_participation_trivia_question(ans, a) ==
  \A b \in ans : ~(b.participation_id = a.participation_id
                    /\ b.trivia_question_id = a.trivia_question_id)

\* recompute_score with COUNT in the place of SUM
recompute_score_count(rows, ans, u) ==
  [p \in DOMAIN rows |->
     IF rows[p].user = u
     THEN [rows[p] EXCEPT !.score =
             Cardinality({a \in ans : a.participation_id = p})]
     ELSE rows[p]]

\* participation_repository.recompute_score: the UPDATE ... RETURNING
recompute_score(rows, ans, u) ==
  [p \in DOMAIN rows |->
     IF rows[p].user = u
     THEN [rows[p] EXCEPT !.score =
             SumPoints({a \in ans : a.participation_id = p})]
     ELSE rows[p]]

\* participation_repository.recompute_scores_for_trivia
recompute_scores_for_trivia(rows, ans) ==
  [p \in DOMAIN rows |->
     [rows[p] EXCEPT !.score =
        SumPoints({a \in ans : a.participation_id = p})]]

Err(op, kind) == [op |-> op, err |-> kind]
Ok(op, val) == [op |-> op, err |-> "none", val |-> val]

Busy(r) == r.pc # "idle"

\* The lowest free slot takes the next request (the slots are alike); a
\* serial server takes one only when no request is in flight.
Admit(i) ==
  /\ req[i].pc = "idle"
  /\ \A j \in Procs : j < i => Busy(req[j])
  /\ serial => \A j \in Procs : ~Busy(req[j])
  /\ published < MaxEvents

\* create_trivia and add_player_to_trivia are handlers of one commit: a
\* serial server runs them, too, only between two other requests.
AdmitAtomic == serial => \A j \in Procs : ~Busy(req[j])

(* ----------------------------- event hub ------------------------------ *)
\* a ticket that validate_ticket deleted
Gone == [id |-> -1]

\* a client id that no subscription has taken
NoClient == [pc |-> "none", trivia_id |-> 0, user_id |-> 0, ticket |-> 0,
             last |-> 0, sent |-> 0, frame |-> "none"]

\* sse_manager.py 33-38: no ticket, no client
SseInit ==
  /\ tickets = [t \in Tokens |-> NoRow]
  /\ clients = [tv \in TriviaIds |-> {}]
  /\ queue = [c \in ClientIds |-> <<>>]
  /\ stream = [c \in ClientIds |-> NoClient]
  /\ published = 0

\* event_emitter.py 90-96
state_map(status) ==
  CASE status = "DRAFT" -> "WAITING"
    [] status = "LOBBY" -> "WAITING"
    [] status = "IN_PROGRESS" -> "IN_PROGRESS"
    [] status = "FINISHED" -> "FINISHED"
    [] OTHER -> "WAITING"

\* event_emitter.py 87-101, 120-126: the status_updated event
status_updated(status, current_question_index) ==
  [event |-> "status_updated",
   data |-> [state |-> state_map(status),
             current_question_index |-> current_question_index]]

\* the events whose payload is a view of the lobby, the question or the
\* ranking; the payload is not kept
payload_event(event_type) == [event |-> event_type, data |-> NoRow]

\* a broadcast that ignores the trivia of a client
broadcast_everyone(q, trivia_id, e) ==
  [c \in ClientIds |->
     IF \E tv \in TriviaIds : c \in clients[tv]
     THEN Append(q[c], e) ELSE q[c]]

\* sse_manager.py 135-149: the queues q after one broadcast; the event goes
\* on the queue of every client in the copy of the trivia's client set
broadcast(q, trivia_id, e) ==
  LET snapshot == clients[trivia_id] IN
  [c \in ClientIds |-> IF c \in snapshot THEN Append(q[c], e) ELSE q[c]]

\* broadcasts one after the other, as an emitting router makes them; the
\* k-th event handed out is numbered published + k
RECURSIVE broadcast_each(_, _, _, _)
broadcast_each(q, trivia_id, events, k) ==
  IF events = <<>> THEN q
  ELSE broadcast_each(
         broadcast(q, trivia_id,
                   [event |-> events[1].event, data |-> events[1].data,
                    trivia_id |-> trivia_id, seq |-> published + k]),
         trivia_id, Tail(events), k + 1)

\* event_emitter.py 104-144: a router emits `events` for the trivia
Emit(trivia_id, events) ==
  /\ queue' = broadcast_each(queue, trivia_id, events, 1)
  /\ published' = IF clients[trivia_id] = {} THEN published
                  ELSE published + Len(events)
  /\ UNCHANGED <<tickets, clients, stream>>

\* the options of the MaxScored questions that players send with a Submit
ScoredOptions ==
  {o \in UNION {OptionsOf(q) : q \in 1..MaxScored} : o[2] <= MaxSubmitted}

(* ------------------------------- Init --------------------------------- *)
InitWith(s) ==
  /\ now = 0
  /\ nBindings = 0
  /\ trivia = NoRow
  /\ participations = <<>>
  /\ answers = {}
  /\ req = [i \in Procs |-> IdleReq]
  /\ response = NoRow
  /\ serial = s
  /\ advances = Null
  /\ SseInit

\* One request at a time: every handler runs to its end before the next.
Init == InitWith(TRUE)

\* Requests overlap: as many in flight as there are slots.
InitLobby == InitWith(FALSE)

(* ------------------------------ clock --------------------------------- *)
Tick ==
  /\ \E t \in Instants : t > now /\ now' = t
  /\ response' = NoRow
  /\ UNCHANGED <<nBindings, trivia, participations, answers, req, serial,
               advances>>
  /\ UNCHANGED sseVars

(* --------------------- admin: create, assign -------------------------- *)
\* trivias.py create_trivia: a DRAFT trivia with n questions bound to it
CreateTrivia(n) ==
  /\ AdmitAtomic
  /\ trivia = NoRow
  /\ trivia' = NewTrivia
  /\ nBindings' = n
  /\ response' = NoRow
  /\ UNCHANGED <<now, participations, answers, req, serial,
               advances>>
  /\ UNCHANGED sseVars

\* trivias.py add_player_to_trivia: an INVITED participation
AddPlayer(u) ==
  /\ AdmitAtomic
  /\ trivia # NoRow
  /\ get_by_trivia_and_user(u) = NoRow
  /\ participations' =
       Append(participations, InvitedRow(Len(participations) + 1, u))
  /\ response' = NoRow
  /\ UNCHANGED <<now, nBindings, trivia, answers, req, serial,
               advances>>
  /\ UNCHANGED sseVars

(* ------------------------------- Join --------------------------------- *)
\* join_trivia.py 41-49: load the trivia, reject a missing or closed one
JoinGet(i, u) ==
  /\ Admit(i)
  /\ IF trivia = NoRow
     THEN /\ response' = Err("join", "NotFound")
          /\ UNCHANGED req
     ELSE IF trivia.status \notin {"DRAFT", "LOBBY"}
     THEN /\ response' = Err("join", "InvalidState")
          /\ UNCHANGED req
     ELSE /\ response' = NoRow
          /\ req' = [req EXCEPT ![i] =
               IF trivia.status = "DRAFT"
               THEN [pc |-> "join_flip", user |-> u,
                     loc |-> [ws |-> Changed(trivia,
                                [trivia EXCEPT !.status = "LOBBY"])]]
               ELSE [pc |-> "join_find", user |-> u, loc |-> NoRow]]
  /\ UNCHANGED <<now, nBindings, trivia, participations, answers, serial,
               advances>>
  /\ UNCHANGED sseVars

\* join_trivia.py 52-54: DRAFT becomes LOBBY, committed on its own
JoinFlip(i) ==
  /\ req[i].pc = "join_flip"
  /\ trivia' = Flush(trivia, req[i].loc.ws)
  /\ req' = [req EXCEPT ![i].pc = "join_find", ![i].loc = NoRow]
  /\ response' = NoRow
  /\ UNCHANGED <<now, nBindings, participations, answers, serial,
               advances>>
  /\ UNCHANGED sseVars

\* a Join that marks the participation JOINED, not READY
JoinedRow_joined(row, t) ==
  [row EXCEPT !.joined_at = Stamp, !.status = "JOINED",
              !.ready_at = Stamp, !.last_seen_at = t]

\* what Join writes into a participation, existing or new
JoinedRow(row, t) ==
  [row EXCEPT !.joined_at = Stamp, !.status = "READY",
              !.ready_at = Stamp, !.last_seen_at = t]

\* join_trivia.py 57-68, 79-87: look the participation up, take the time
JoinFind(i) ==
  /\ req[i].pc = "join_find"
  /\ LET pv == get_by_trivia_and_user(req[i].user) IN
     req' = [req EXCEPT ![i].pc = "join_save",
               ![i].loc = IF pv # NoRow
                          THEN [pid |-> pv.id,
                                ws |-> Changed(pv, JoinedRow(pv, now))]
                          ELSE [pid |-> 0, at |-> now]]
  /\ response' = NoRow
  /\ UNCHANGED <<now, nBindings, trivia, participations, answers, serial,
               advances>>
  /\ UNCHANGED sseVars

\* lobby.py 105-121, 180-185: the three events of a Join or a SetReady; the
\* trivia is LOBBY for both, its question index that of the trivia row
LobbyEvents ==
  <<payload_event("lobby_updated"), payload_event("admin_lobby_updated"),
    status_updated("LOBBY", trivia.current_question_index)>>

\* join_trivia.py 69-96: update the existing row or insert a new one;
\* lobby.py 105-121: the router then emits the lobby events
JoinSave(i) ==
  /\ req[i].pc = "join_save"
  /\ LET u == req[i].user
         l == req[i].loc
         dto(pid) == Ok("join", [participation_id |-> pid,
                                 participation_status |-> "READY",
                                 trivia_status |-> "LOBBY"])
     IN
     IF l.pid # 0
     THEN /\ participations' = [participations EXCEPT ![l.pid] =
                Flush(participations[l.pid], l.ws)]
          /\ response' = dto(l.pid)
     ELSE IF ~uq_trivia_user(participations, u)
     THEN \* uq_trivia_user rejects the insert; the router answers 500
          /\ response' = Err("join", "Internal")
          /\ UNCHANGED participations
     ELSE LET pid == Len(participations) + 1 IN
          /\ participations' = Append(participations,
                JoinedRow(InvitedRow(pid, u), l.at))
          /\ response' = dto(pid)
  /\ IF req[i].loc.pid = 0 /\ ~uq_trivia_user(participations, req[i].user)
     THEN UNCHANGED sseVars
     ELSE Emit(trivia.id, LobbyEvents)
  /\ req' = [req EXCEPT ![i] = IdleReq]
  /\ UNCHANGED <<now, nBindings, trivia, answers, serial,
               advances>>

(* ----------------------------- SetReady ------------------------------- *)
\* set_ready.py 40-62: trivia must be LOBBY, the participation must exist
SetReadyGet(i, u) ==
  /\ Admit(i)
  /\ LET pv == get_by_trivia_and_user(u) IN
     IF trivia = NoRow
     THEN /\ response' = Err("ready", "NotFound")
          /\ UNCHANGED req
     ELSE IF trivia.status # "LOBBY"
     THEN /\ response' = Err("ready", "InvalidState")
          /\ UNCHANGED req
     ELSE IF pv = NoRow
     THEN /\ response' = Err("ready", "NotFound")
          /\ UNCHANGED req
     ELSE /\ response' = NoRow
          /\ req' = [req EXCEPT ![i] =
               [pc |-> "ready_save", user |-> u,
                loc |-> [pid |-> pv.id,
                         ws |-> Changed(pv, [pv EXCEPT !.status = "READY",
                                                       !.ready_at = Stamp])]]]
  /\ UNCHANGED <<now, nBindings, trivia, participations, answers, serial,
               advances>>
  /\ UNCHANGED sseVars

\* set_ready.py 64-69; lobby.py 170-185: the router emits the lobby events
SetReadySave(i) ==
  /\ req[i].pc = "ready_save"
  /\ LET l == req[i].loc IN
     /\ participations' = [participations EXCEPT ![l.pid] =
           Flush(participations[l.pid], l.ws)]
     /\ response' = Ok("ready",
           [participation_id |-> l.pid, participation_status |-> "READY"])
  /\ Emit(trivia.id, LobbyEvents)
  /\ req' = [req EXCEPT ![i] = IdleReq]
  /\ UNCHANGED <<now, nBindings, trivia, answers, serial,
               advances>>

(* ----------------------------- Heartbeat ------------------------------ *)
\* update_heartbeat.py 33-47
HeartbeatGet(i, u) ==
  /\ Admit(i)
  /\ LET pv == get_by_trivia_and_user(u) IN
     IF trivia = NoRow \/ pv = NoRow
     THEN /\ response' = Err("heartbeat", "NotFound")
          /\ UNCHANGED req
     ELSE /\ response' = NoRow
          /\ req' = [req EXCEPT ![i] =
               [pc |-> "heartbeat_save", user |-> u,
                loc |-> [pid |-> pv.id,
                         ws |-> Changed(pv,
                                  [pv EXCEPT !.last_seen_at = now])]]]
  /\ UNCHANGED <<now, nBindings, trivia, participations, answers, serial,
               advances>>
  /\ UNCHANGED sseVars

\* update_heartbeat.py 48
HeartbeatSave(i) ==
  /\ req[i].pc = "heartbeat_save"
  /\ LET l == req[i].loc IN
     /\ participations' = [participations EXCEPT ![l.pid] =
           Flush(participations[l.pid], l.ws)]
     /\ response' = Ok("heartbeat", NoRow)
  /\ req' = [req EXCEPT ![i] = IdleReq]
  /\ UNCHANGED <<now, nBindings, trivia, answers, serial,
               advances>>
  /\ UNCHANGED sseVars

\* a presence test that excludes the last second of the TTL
is_present_strict(row, t) ==
  row.last_seen_at # Null /\ t - row.last_seen_at < PRESENCE_TTL_SECONDS

\* get_admin_lobby_use_case.py 64-70: seen within the presence TTL of t
is_present(row, t) ==
  row.last_seen_at # Null /\ t - row.last_seen_at <= PRESENCE_TTL_SECONDS

(* ------------------------------- Start -------------------------------- *)
\* start_trivia.py 44-59: load the trivia; creator only; LOBBY only
StartGet(i, caller) ==
  /\ Admit(i)
  /\ IF trivia = NoRow
     THEN /\ response' = Err("start", "NotFound")
          /\ UNCHANGED req
     ELSE IF caller # Admin
     THEN /\ response' = Err("start", "Forbidden")
          /\ UNCHANGED req
     ELSE IF trivia.status # "LOBBY"
     THEN /\ response' = Err("start", "InvalidState")
          /\ UNCHANGED req
     ELSE /\ response' = NoRow
          /\ req' = [req EXCEPT ![i] =
               [pc |-> "start_list", user |-> caller, loc |-> [tv |-> trivia]]]
  /\ UNCHANGED <<now, nBindings, trivia, participations, answers, serial,
               advances>>
  /\ UNCHANGED sseVars

\* start_trivia.py 70-75
present_count == Cardinality({p \in Pids : participations[p].joined_at # Null})
ready_count == Cardinality({p \in Pids : participations[p].status = "READY"})

\* start_trivia.py 90-95: what Start sets on its copy of the trivia
StartedTrivia(tv, t) ==
  [tv EXCEPT !.status = "IN_PROGRESS", !.started_at = Stamp,
             !.current_question_index = 0, !.question_started_at = t]

\* start_trivia.py 61-95: list the participations, check them, set the fields
StartList(i) ==
  /\ req[i].pc = "start_list"
  /\ IF Len(participations) = 0
     THEN /\ response' = Err("start", "InvalidState")
          /\ req' = [req EXCEPT ![i] = IdleReq]
     ELSE IF present_count # Len(participations)
     THEN /\ response' = Err("start", "Conflict")
          /\ req' = [req EXCEPT ![i] = IdleReq]
     ELSE IF ready_count # Len(participations)
     THEN /\ response' = Err("start", "Conflict")
          /\ req' = [req EXCEPT ![i] = IdleReq]
     ELSE /\ response' = NoRow
          /\ req' = [req EXCEPT ![i].pc = "start_update",
               ![i].loc = [ws |-> Changed(req[i].loc.tv,
                                    StartedTrivia(req[i].loc.tv, now))]]
  /\ UNCHANGED <<now, nBindings, trivia, participations, answers, serial,
               advances>>
  /\ UNCHANGED sseVars

\* start_trivia.py 97: trivia_repository.update commits
StartUpdate(i) ==
  /\ req[i].pc = "start_update"
  /\ trivia' = Flush(trivia, req[i].loc.ws)
  /\ req' = [req EXCEPT ![i].pc = "start_tail", ![i].loc = NoRow]
  /\ response' = NoRow
  /\ UNCHANGED <<now, nBindings, participations, answers, serial,
               advances>>
  /\ UNCHANGED sseVars

\* get_current_question.py 50-76, as the start router calls it: the trivia
\* comes from the request's own session, IN_PROGRESS at index 0 as Start
\* left it there; the binding at that index is read from the database
CurrentQuestionError ==
  IF BindingAt(0) = NoRow THEN "NotFound" ELSE "none"

\* lobby.py 224-258: status_updated is emitted; the current question is
\* loaded and emitted; the ranking is recomputed and emitted
StartTail(i) ==
  /\ req[i].pc = "start_tail"
  /\ IF CurrentQuestionError # "none"
     THEN /\ response' = Err("start", CurrentQuestionError)
          /\ Emit(trivia.id, <<status_updated("IN_PROGRESS", 0)>>)
          /\ UNCHANGED <<participations, advances>>
     ELSE /\ response' = Ok("start", [trivia_status |-> "IN_PROGRESS",
                                      current_question_index |-> 0])
          /\ Emit(trivia.id, <<status_updated("IN_PROGRESS", 0),
                               payload_event("current_question_updated"),
                               payload_event("ranking_updated")>>)
          /\ participations' =
               recompute_scores_for_trivia(participations, answers)
          /\ advances' = 0
  /\ req' = [req EXCEPT ![i] = IdleReq]
  /\ UNCHANGED <<now, nBindings, trivia, answers, serial>>

(* ------------------------------ Advance ------------------------------- *)
\* Advance that compares the index, not the index after it, with the total
AdvancedTrivia_late(tv, total, t) ==
  IF tv.current_question_index < total
  THEN [tv EXCEPT !.current_question_index = @ + 1,
                  !.question_started_at = t]
  ELSE [tv EXCEPT !.status = "FINISHED", !.question_started_at = Null,
                  !.finished_at = Stamp]

\* advance_question.py 63-73: next question, or finish
AdvancedTrivia(tv, total, t) ==
  IF tv.current_question_index + 1 < total
  THEN [tv EXCEPT !.current_question_index = @ + 1,
                  !.question_started_at = t]
  ELSE [tv EXCEPT !.status = "FINISHED", !.question_started_at = Null,
                  !.finished_at = Stamp]

\* advance_question.py 44-73
AdvanceGet(i, caller) ==
  /\ Admit(i)
  /\ IF trivia = NoRow
     THEN /\ response' = Err("advance", "NotFound")
          /\ UNCHANGED req
     ELSE IF caller # Admin
     THEN /\ response' = Err("advance", "Forbidden")
          /\ UNCHANGED req
     ELSE IF trivia.status # "IN_PROGRESS"
     THEN /\ response' = Err("advance", "InvalidState")
          /\ UNCHANGED req
     ELSE LET obj == AdvancedTrivia(trivia, nBindings, now) IN
          /\ response' = NoRow
          /\ req' = [req EXCEPT ![i] =
               [pc |-> "advance_update", user |-> caller,
                loc |-> [ws |-> Changed(trivia, obj),
                         val |-> [status |-> obj.status,
                                  current_question_index |->
                                    obj.current_question_index,
                                  total_questions |-> nBindings]]]]
  /\ UNCHANGED <<now, nBindings, trivia, participations, answers, serial,
               advances>>
  /\ UNCHANGED sseVars

\* advance_question.py 76-83
AdvanceUpdate(i) ==
  /\ req[i].pc = "advance_update"
  /\ trivia' = Flush(trivia, req[i].loc.ws)
  /\ response' = Ok("advance", req[i].loc.val)
  /\ advances' = IF advances = Null THEN Null ELSE advances + 1
  /\ req' = [req EXCEPT ![i] = IdleReq]
  /\ UNCHANGED <<now, nBindings, participations, answers, serial>>
  /\ UNCHANGED sseVars

(* ------------------------------- Submit ------------------------------- *)
\* submit_answer.py 155-157
TimeRemaining(limit, started, at) ==
  LET remaining == limit - (at - started) IN
  IF remaining > 0 THEN remaining ELSE 0

\* scoring that forgets the time limit
EarnedPoints_untimed(o, q, remaining) ==
  IF OptionIsCorrect(o) THEN points_for(QuestionDifficulty(q)) ELSE 0

\* submit_answer.py 160-172
EarnedPoints(o, q, remaining) ==
  IF remaining <= 0 THEN 0
  ELSE IF OptionIsCorrect(o) THEN points_for(QuestionDifficulty(q))
  ELSE 0

AnswerIsCorrect(o, remaining) ==
  IF remaining <= 0 THEN FALSE ELSE OptionIsCorrect(o)

\* Submit that looks the participation up before it looks at the status
SubmitError_participation_first(u, o) ==
  IF trivia = NoRow THEN "NotFound"
  ELSE IF get_by_trivia_and_user(u) = NoRow THEN "NotFound"
  ELSE IF trivia.status # "IN_PROGRESS" THEN "InvalidState"
  ELSE IF trivia.question_started_at = Null THEN "InvalidState"
  ELSE IF BindingAt(trivia.current_question_index) = NoRow THEN "NotFound"
  ELSE IF o \notin
            OptionsOf(BindingAt(trivia.current_question_index).question_id)
       THEN "NotFound"
  ELSE "none"

\* the first precondition of submit_answer.py 75-124 that fails
SubmitError(u, o) ==
  IF trivia = NoRow THEN "NotFound"
  ELSE IF trivia.status # "IN_PROGRESS" THEN "InvalidState"
  ELSE IF trivia.question_started_at = Null THEN "InvalidState"
  ELSE IF get_by_trivia_and_user(u) = NoRow THEN "NotFound"
  ELSE IF BindingAt(trivia.current_question_index) = NoRow THEN "NotFound"
  ELSE IF o \notin
            OptionsOf(BindingAt(trivia.current_question_index).question_id)
       THEN "NotFound"
  ELSE "none"

\* the reply for a stored answer with the clock replayed
ExistingAnswerDTO_replayed(pv, tq, existing) ==
  [participation_id |-> pv.id,
   question_id |-> tq.question_id,
   selected_option_id |-> existing.selected_option_id,
   is_correct |-> existing.is_correct,
   earned_points |-> existing.earned_points,
   total_score |-> pv.score,
   time_remaining_seconds |->
     TimeRemaining(tq.time_limit_seconds, trivia.question_started_at, now),
   created |-> FALSE]

\* submit_answer.py 128-150: the reply for an answer already stored
ExistingAnswerDTO(pv, tq, existing) ==
  [participation_id |-> pv.id,
   question_id |-> tq.question_id,
   selected_option_id |-> existing.selected_option_id,
   is_correct |-> existing.is_correct,
   earned_points |-> existing.earned_points,
   total_score |-> pv.score,
   time_remaining_seconds |-> 0,
   created |-> FALSE]

\* submit_answer.py 74-183: the reads, the idempotent reply, the new Answer,
\* for a Submit whose answered_at is `at`
SubmitReads(i, u, o, at) ==
  /\ IF SubmitError(u, o) # "none"
     THEN /\ response' = Err("submit", SubmitError(u, o))
          /\ req' = [req EXCEPT ![i] = IdleReq]
     ELSE LET pv == get_by_trivia_and_user(u)
              tq == BindingAt(trivia.current_question_index)
              existing ==
                get_by_participation_and_trivia_question(pv.id, tq.id)
              remaining == TimeRemaining(tq.time_limit_seconds,
                                         trivia.question_started_at, at)
          IN
          IF existing # NoRow
          THEN /\ response' =
                    Ok("submit", ExistingAnswerDTO(pv, tq, existing))
               /\ req' = [req EXCEPT ![i] = IdleReq]
          ELSE /\ response' = NoRow
               /\ req' = [req EXCEPT ![i] =
                    [pc |-> "submit_insert", user |-> u,
                     loc |-> [answer |->
                                [participation_id |-> pv.id,
                                 trivia_question_id |-> tq.id,
                                 selected_option_id |-> o,
                                 is_correct |-> AnswerIsCorrect(o, remaining),
                                 earned_points |->
                                   EarnedPoints(o, tq.question_id, remaining),
                                 answered_at |-> Stamp],
                              remaining |-> remaining]]]
  /\ UNCHANGED <<now, nBindings, trivia, participations, answers, serial,
               advances>>
  /\ UNCHANGED sseVars

\* submit_answer.py 66-183 with nothing served between the line that takes
\* answered_at and the reads
SubmitGet(i, u, o) ==
  /\ Admit(i)
  /\ SubmitReads(i, u, o, now)

\* submit_answer.py 66-72: answered_at is taken when the use case is
\* entered, ahead of the first read
SubmitStamp(i, u, o) ==
  /\ Admit(i)
  /\ req' = [req EXCEPT ![i] =
       [pc |-> "submit_read", user |-> u,
        loc |-> [selected_option_id |-> o, answered_at |-> now]]]
  /\ response' = NoRow
  /\ UNCHANGED <<now, nBindings, trivia, participations, answers, serial,
               advances>>
  /\ UNCHANGED sseVars

\* submit_answer.py 74-183, served after other requests and the clock moved
SubmitRead(i) ==
  /\ req[i].pc = "submit_read"
  /\ SubmitReads(i, req[i].user, req[i].loc.selected_option_id,
                 req[i].loc.answered_at)

\* sqlalchemy_answer_repository.py 34-55: INSERT, commit;
\* uq_participation_trivia_question turns a second row into ConflictError
SubmitInsert(i) ==
  /\ req[i].pc = "submit_insert"
  /\ LET a == req[i].loc.answer IN
     IF ~uq_participation_trivia_question(answers, a)
     THEN /\ response' = Err("submit", "Conflict")
          /\ req' = [req EXCEPT ![i] = IdleReq]
          /\ UNCHANGED answers
     ELSE /\ response' = NoRow
          /\ answers' = answers \cup {a}
          /\ req' = [req EXCEPT ![i].pc = "submit_score"]
  /\ UNCHANGED <<now, nBindings, trivia, participations, serial,
               advances>>
  /\ UNCHANGED sseVars

\* submit_answer.py 192-227: recompute_score commits, the DTO is returned
SubmitScore(i) ==
  /\ req[i].pc = "submit_score"
  /\ LET a == req[i].loc.answer
         rows == recompute_score(participations, answers, req[i].user) IN
     /\ participations' = rows
     /\ response' = Ok("submit",
          [participation_id |-> a.participation_id,
           question_id |-> a.trivia_question_id,
           selected_option_id |-> a.selected_option_id,
           is_correct |-> a.is_correct,
           earned_points |-> a.earned_points,
           total_score |-> rows[a.participation_id].score,
           time_remaining_seconds |-> req[i].loc.remaining,
           created |-> TRUE])
  /\ req' = [req EXCEPT ![i] = IdleReq]
  /\ UNCHANGED <<now, nBindings, trivia, answers, serial,
               advances>>
  /\ UNCHANGED sseVars

(* ------------------------- GetCurrentQuestion ------------------------- *)
\* get_current_question.py 90-116: a negative elapsed time counts as zero;
\* without question_started_at the whole time limit remains
CurrentTimeRemaining(limit, started, at) ==
  IF started = Null THEN limit
  ELSE LET elapsed == IF at - started < 0 THEN 0 ELSE at - started
           remaining == limit - elapsed
       IN IF remaining > 0 THEN remaining ELSE 0

\* get_current_question.py 50-133: reads only; the time is taken after them
GetCurrentQuestion(i, u) ==
  /\ Admit(i)
  /\ LET pv == get_by_trivia_and_user(u)
         tq == BindingAt(trivia.current_question_index)
     IN
     response' =
       IF trivia = NoRow THEN Err("current_question", "NotFound")
       ELSE IF trivia.status # "IN_PROGRESS"
         THEN Err("current_question", "InvalidState")
       ELSE IF pv = NoRow THEN Err("current_question", "NotFound")
       ELSE IF tq = NoRow THEN Err("current_question", "NotFound")
       ELSE Ok("current_question",
               [question_id |-> tq.question_id,
                time_remaining_seconds |->
                  CurrentTimeRemaining(tq.time_limit_seconds,
                                       trivia.question_started_at, now),
                fifty_fifty_available |-> ~pv.fifty_fifty_used])
  /\ UNCHANGED <<now, nBindings, trivia, participations, answers, req,
               serial, advances>>
  /\ UNCHANGED sseVars

(* ------------------------------- Reset -------------------------------- *)
\* trivias.py 503-508: what Reset sets on its copy of the trivia
ResetTrivia(tv) ==
  [tv EXCEPT !.status = "LOBBY", !.current_question_index = 0,
             !.question_started_at = Null, !.started_at = Null,
             !.finished_at = Null]

\* trivias.py 479-486
ResetGet(i) ==
  /\ Admit(i)
  /\ IF trivia = NoRow
     THEN /\ response' = Err("reset", "NotFound")
          /\ UNCHANGED req
     ELSE /\ response' = NoRow
          /\ req' = [req EXCEPT ![i] =
               [pc |-> "reset_delete", user |-> Admin,
                loc |-> [ws |-> Changed(trivia, ResetTrivia(trivia))]]]
  /\ UNCHANGED <<now, nBindings, trivia, participations, answers, serial,
               advances>>
  /\ UNCHANGED sseVars

\* trivias.py 488-494: the DELETE sees the answers committed by now
ResetDelete(i) ==
  /\ req[i].pc = "reset_delete"
  /\ req' = [req EXCEPT ![i].pc = "reset_commit",
               ![i].loc = [ws |-> req[i].loc.ws, deleted |-> answers]]
  /\ response' = NoRow
  /\ UNCHANGED <<now, nBindings, trivia, participations, answers, serial,
               advances>>
  /\ UNCHANGED sseVars

\* trivias.py 496-512: scores to 0, the trivia row, one commit for all
ResetCommit(i) ==
  /\ req[i].pc = "reset_commit"
  /\ answers' = answers \ req[i].loc.deleted
  /\ participations' =
       [p \in Pids |-> [participations[p] EXCEPT !.score = 0]]
  /\ trivia' = Flush(trivia, req[i].loc.ws)
  /\ response' = Ok("reset", NoRow)
  /\ advances' = Null
  /\ req' = [req EXCEPT ![i] = IdleReq]
  /\ UNCHANGED <<now, nBindings, serial>>
  /\ UNCHANGED sseVars

(* --------------------------- 50/50 lifeline --------------------------- *)
\* question_repository.get_by_id: the questions that exist
Questions == 1..MaxScored

\* a lifeline that does not look for an existing answer
FiftyError_answered(u, q) ==
  LET pv == get_by_trivia_and_user(u)
      tq == BindingAt(trivia.current_question_index)
      options == OptionsOf(q)
  IN
  IF trivia = NoRow THEN "NotFound"
  ELSE IF trivia.status # "IN_PROGRESS" THEN "InvalidState"
  ELSE IF pv = NoRow THEN "NotFound"
  ELSE IF pv.fifty_fifty_used THEN "Conflict"
  ELSE IF q \notin Questions THEN "NotFound"
  ELSE IF tq = NoRow THEN "NotFound"
  ELSE IF tq.question_id # q THEN "InvalidState"
  ELSE IF Cardinality(options) < 4 THEN "InvalidState"
  ELSE IF \A o \in options : ~OptionIsCorrect(o) THEN "InvalidState"
  ELSE IF \A o \in options : OptionIsCorrect(o) THEN "InvalidState"
  ELSE "none"

\* the first precondition of use_fifty_fifty_lifeline.py 59-127 that fails
FiftyError(u, q) ==
  LET pv == get_by_trivia_and_user(u)
      tq == BindingAt(trivia.current_question_index)
      options == OptionsOf(q)
  IN
  IF trivia = NoRow THEN "NotFound"
  ELSE IF trivia.status # "IN_PROGRESS" THEN "InvalidState"
  ELSE IF pv = NoRow THEN "NotFound"
  ELSE IF pv.fifty_fifty_used THEN "Conflict"
  ELSE IF q \notin Questions THEN "NotFound"
  ELSE IF tq = NoRow THEN "NotFound"
  ELSE IF tq.question_id # q THEN "InvalidState"
  ELSE IF get_by_participation_and_trivia_question(pv.id, tq.id) # NoRow
       THEN "InvalidState"
  ELSE IF Cardinality(options) < 4 THEN "InvalidState"
  ELSE IF \A o \in options : ~OptionIsCorrect(o) THEN "InvalidState"
  ELSE IF \A o \in options : OptionIsCorrect(o) THEN "InvalidState"
  ELSE "none"

\* use_fifty_fifty_lifeline.py 119: the correct option of question q
correct_option(q) == CHOOSE o \in OptionsOf(q) : OptionIsCorrect(o)

\* a lifeline that draws its second option from all the options
incorrect_options_any(q) == OptionsOf(q)

\* use_fifty_fifty_lifeline.py 124: what random.choice draws from
incorrect_options(q) == {o \in OptionsOf(q) : ~OptionIsCorrect(o)}

\* use_fifty_fifty_lifeline.py 59-127, 137-138: the reads and the checks; the
\* handler marks its copy of the participation
FiftyGet(i, u, q) ==
  /\ Admit(i)
  /\ IF FiftyError(u, q) # "none"
     THEN /\ response' = Err("fifty", FiftyError(u, q))
          /\ UNCHANGED req
     ELSE LET pv == get_by_trivia_and_user(u) IN
          /\ response' = NoRow
          /\ req' = [req EXCEPT ![i] =
               [pc |-> "fifty_save", user |-> u,
                loc |-> [pid |-> pv.id, question_id |-> q,
                         ws |-> Changed(pv,
                                  [pv EXCEPT !.fifty_fifty_used = TRUE,
                                             !.fifty_fifty_question_id = q])]]]
  /\ UNCHANGED <<now, nBindings, trivia, participations, answers, serial,
               advances>>
  /\ UNCHANGED sseVars

\* use_fifty_fifty_lifeline.py 130-149: random.choice picks the incorrect
\* option, random.shuffle the order of the two; update() commits
FiftySave(i) ==
  /\ req[i].pc = "fifty_save"
  /\ LET l == req[i].loc IN
     /\ participations' = [participations EXCEPT ![l.pid] =
           Flush(participations[l.pid], l.ws)]
     /\ \E selected_incorrect \in incorrect_options(l.question_id),
           shuffled \in BOOLEAN :
          response' = Ok("fifty",
            [allowed_options |->
               IF shuffled
               THEN <<selected_incorrect, correct_option(l.question_id)>>
               ELSE <<correct_option(l.question_id), selected_incorrect>>,
             fifty_fifty_used |-> TRUE])
  /\ req' = [req EXCEPT ![i] = IdleReq]
  /\ UNCHANGED <<now, nBindings, trivia, answers, serial,
               advances>>
  /\ UNCHANGED sseVars

(* ------------------------------ Ranking ------------------------------- *)
\* the users table: every player account; no handler deletes a user
Users == 1..(NumPlayers + 1)

\* a listing that orders by score ascending
score_order_asc(rows, a, b) == rows[a].score <= rows[b].score

\* sqlalchemy_participation_repository.py 89: ORDER BY score DESC
score_order(rows, a, b) == rows[a].score >= rows[b].score

\* participation_repository.list_by_trivia: the orders in which the query
\* may return the rows; rows of equal score come in any order
list_by_trivia(rows) ==
  {order \in [1..Len(rows) -> DOMAIN rows] :
     /\ \A j, k \in 1..Len(rows) : j # k => order[j] # order[k]
     /\ \A k \in 1..(Len(rows) - 1) :
          score_order(rows, order[k], order[k + 1])}

\* get_trivia_ranking.py 57-73: positions follow the listing; a row whose
\* user is not found gets no entry
ranking_entries(rows, order) ==
  SelectSeq([k \in 1..Len(rows) |->
               [position |-> k, user_id |-> rows[order[k]].user,
                score |-> rows[order[k]].score]],
            LAMBDA e : e.user_id \in Users)

\* get_trivia_ranking.py 38-43: the trivia must exist; the scores of the
\* trivia are recomputed and committed
RankingGet(i) ==
  /\ Admit(i)
  /\ IF trivia = NoRow
     THEN /\ response' = Err("ranking", "NotFound")
          /\ UNCHANGED <<req, participations>>
     ELSE /\ response' = NoRow
          /\ participations' =
               recompute_scores_for_trivia(participations, answers)
          /\ req' = [req EXCEPT ![i] =
               [pc |-> "ranking_list", user |-> 0,
                loc |-> [status |-> trivia.status]]]
  /\ UNCHANGED <<now, nBindings, trivia, answers, serial, advances>>
  /\ UNCHANGED sseVars

\* get_trivia_ranking.py 46-79: list the participations, build the entries
RankingList(i) ==
  /\ req[i].pc = "ranking_list"
  /\ \E order \in list_by_trivia(participations) :
       response' = Ok("ranking",
         [status |-> req[i].loc.status,
          ranking |-> ranking_entries(participations, order)])
  /\ req' = [req EXCEPT ![i] = IdleReq]
  /\ UNCHANGED <<now, nBindings, trivia, participations, answers, serial,
                 advances>>
  /\ UNCHANGED sseVars

(* ---------------------------- lobby views ----------------------------- *)
\* users.name: the rank of an account's name in alphabetical order; the
\* column is not unique: account 1 has one name, the others share an
\* earlier one
UserName(u) == IF u = 1 THEN 2 ELSE 1

\* get_admin_lobby_use_case.py 59-86: one entry per listed participation
\* whose user is found, in the order of the listing
lobby_players(rows, order, t) ==
  SelectSeq([k \in 1..Len(rows) |->
               [user_id |-> rows[order[k]].user,
                name |-> UserName(rows[order[k]].user),
                present |-> is_present(rows[order[k]], t),
                ready |-> rows[order[k]].status = "READY"]],
            LAMBDA e : e.user_id \in Users)

\* list.sort(key=name): e goes behind every entry whose name is not later
insert_by_name(sorted, e) ==
  LET before == SelectSeq(sorted, LAMBDA x : x.name <= e.name)
      after == SelectSeq(sorted, LAMBDA x : x.name > e.name)
  IN before \o <<e>> \o after

\* get_admin_lobby_use_case.py 89: players.sort(key=lambda p: p.name), a
\* stable sort: entries of equal name keep the order of the listing
RECURSIVE sort_by_name(_)
sort_by_name(players) ==
  IF players = <<>> THEN <<>>
  ELSE insert_by_name(
         sort_by_name(SubSeq(players, 1, Len(players) - 1)),
         players[Len(players)])

\* get_admin_lobby_use_case.py 41-96: the admin's view of the lobby
AdminLobbyDTO(rows, order, t) ==
  LET players == lobby_players(rows, order, t) IN
  [assigned_count |-> Len(rows),
   present_count |-> Len(SelectSeq(players, LAMBDA e : e.present)),
   ready_count |-> Len(SelectSeq(players, LAMBDA e : e.ready)),
   players |-> sort_by_name(players)]

\* admin.py 30-60, get_admin_lobby_use_case.py 41-96: reads only
GetAdminLobby(i) ==
  /\ Admit(i)
  /\ IF trivia = NoRow
     THEN response' = Err("admin_lobby", "NotFound")
     ELSE \E order \in list_by_trivia(participations) :
            response' = Ok("admin_lobby",
                           AdminLobbyDTO(participations, order, now))
  /\ UNCHANGED <<now, nBindings, trivia, participations, answers, req,
               serial, advances>>
  /\ UNCHANGED sseVars

\* play.py 94-130, get_admin_lobby_use_case.py 98-112: the players of the
\* admin's view and nothing else
GetPlayerLobby(i) ==
  /\ Admit(i)
  /\ IF trivia = NoRow
     THEN response' = Err("lobby", "NotFound")
     ELSE \E order \in list_by_trivia(participations) :
            response' = Ok("lobby",
              [players |->
                 AdminLobbyDTO(participations, order, now).players])
  /\ UNCHANGED <<now, nBindings, trivia, participations, answers, req,
               serial, advances>>
  /\ UNCHANGED sseVars

\* the clock of the lobby: it moves by the presence TTL
PresenceTick ==
  /\ \E t \in PresenceInstants : t > now /\ now' = t
  /\ response' = NoRow
  /\ UNCHANGED <<nBindings, trivia, participations, answers, req, serial,
               advances>>
  /\ UNCHANGED sseVars

(* --------------------- event hub: tickets, streams -------------------- *)
\* events.py 28-55, sse_manager.py 54-61: a fresh token, stored with its
\* trivia, its user and its expiry
create_sse_ticket(trivia_id, user_id) ==
  /\ \E t \in Tokens :
       /\ tickets[t] = NoRow
       /\ \A t2 \in Tokens : t2 < t => tickets[t2] # NoRow
       /\ tickets' = [tickets EXCEPT ![t] =
            [trivia_id |-> trivia_id, user_id |-> user_id,
             expires_at |-> now + expires_in_seconds]]
       /\ response' = Ok("ticket", [ticket |-> t,
                                    expires_in |-> expires_in_seconds])
  /\ UNCHANGED <<now, nBindings, trivia, participations, answers, req,
                 serial, advances, clients, queue, stream, published>>

\* a validation that does not look at the expiry
validate_ticket_unexpired(t) ==
  IF tickets[t] \in {NoRow, Gone} THEN NoRow ELSE tickets[t]

\* sse_manager.py 74-85: what validate_ticket returns, NoRow for None
validate_ticket(t) ==
  IF tickets[t] \in {NoRow, Gone} THEN NoRow
  ELSE IF now > tickets[t].expires_at THEN NoRow
  ELSE tickets[t]

\* sse_manager.py 74-85: the tickets validate_ticket leaves
validated_tickets(t) ==
  IF tickets[t] \notin {NoRow, Gone} /\ now > tickets[t].expires_at
  THEN [tickets EXCEPT ![t] = Gone]
  ELSE tickets

\* sse_manager.py 162-175: every ticket whose expiry has passed leaves the
\* store. Nothing calls it: the lifespan of the application (main.py 27-34)
\* starts no task and no handler refers to it, so no Next has this step.
cleanup_expired_tickets ==
  /\ tickets' = [t \in Tokens |->
       IF tickets[t] \notin {NoRow, Gone} /\ now > tickets[t].expires_at
       THEN Gone ELSE tickets[t]]
  /\ response' = NoRow
  /\ UNCHANGED <<now, nBindings, trivia, participations, answers, req,
                 serial, advances, clients, queue, stream, published>>

\* events.py 126-146, sse_manager.py 98-106: validate the ticket, compare
\* the trivia, subscribe a new client c
stream_trivia_events(c, trivia_id, t) ==
  /\ stream[c] = NoClient
  /\ \A c2 \in ClientIds : c2 < c => stream[c2] # NoClient
  /\ tickets' = validated_tickets(t)
  /\ IF validate_ticket(t) = NoRow
     THEN /\ response' = Err("events", "Unauthorized")
          /\ UNCHANGED <<clients, stream>>
     ELSE IF validate_ticket(t).trivia_id # trivia_id
     THEN /\ response' = Err("events", "Forbidden")
          /\ UNCHANGED <<clients, stream>>
     ELSE /\ response' = Ok("events", [client |-> c])
          /\ clients' = [clients EXCEPT ![trivia_id] = @ \cup {c}]
          /\ stream' = [stream EXCEPT ![c] =
               [pc |-> "connect", trivia_id |-> trivia_id,
                user_id |-> validate_ticket(t).user_id, ticket |-> t,
                last |-> now, sent |-> 0, frame |-> "none"]]
  /\ UNCHANGED <<now, nBindings, trivia, participations, answers, req,
                 serial, advances, queue, published>>

\* events.py 66-68: the stream starts with the connected frame
StreamConnected(c) ==
  /\ stream[c].pc = "connect"
  /\ stream' = [stream EXCEPT ![c].pc = "wait", ![c].last = now,
                              ![c].frame = "connected"]
  /\ response' = NoRow
  /\ UNCHANGED <<now, nBindings, trivia, participations, answers, req,
                 serial, advances, tickets, clients, queue, published>>

\* a stream that takes the newest event of the queue
next_event_newest(q) == Len(q)

\* events.py 74, asyncio.Queue.get: the position of the event a stream
\* takes from its queue
next_event(q) == 1

\* events.py 74-81: an event is on the queue; the stream takes it and
\* yields its frame
StreamEvent(c) ==
  /\ stream[c].pc = "wait"
  /\ queue[c] # <<>>
  /\ LET k == next_event(queue[c]) IN
     /\ stream' = [stream EXCEPT ![c].last = now, ![c].frame = "event",
                                 ![c].sent = queue[c][k].seq]
     /\ queue' = [queue EXCEPT ![c] =
          SubSeq(@, 1, k - 1) \o SubSeq(@, k + 1, Len(@))]
  /\ response' = NoRow
  /\ UNCHANGED <<now, nBindings, trivia, participations, answers, req,
                 serial, advances, tickets, clients, published>>

\* a wait_for that lets two timeouts pass
wait_for_expired_late(since, t) == t - since >= 2 * timeout

\* events.py 74: wait_for has waited its timeout since the last frame
wait_for_expired(since, t) == t - since >= timeout

\* events.py 83-85: no event within the timeout; the keepalive comment is
\* yielded and the loop waits again
StreamKeepalive(c) ==
  /\ stream[c].pc = "wait"
  /\ queue[c] = <<>>
  /\ wait_for_expired(stream[c].last, now)
  /\ stream' = [stream EXCEPT ![c].last = now, ![c].frame = "keepalive"]
  /\ response' = NoRow
  /\ UNCHANGED <<now, nBindings, trivia, participations, answers, req,
                 serial, advances, tickets, clients, queue, published>>

\* events.py 96-99, sse_manager.py 115-120: the connection is closed; the
\* generator's finally unsubscribes the client
StreamClosed(c) ==
  /\ stream[c].pc = "wait"
  /\ stream' = [stream EXCEPT ![c].pc = "closed"]
  /\ clients' = [clients EXCEPT ![stream[c].trivia_id] = @ \ {c}]
  /\ response' = NoRow
  /\ UNCHANGED <<now, nBindings, trivia, participations, answers, req,
                 serial, advances, tickets, queue, published>>

\* sse_manager.py 124-160: some router publishes one event for a trivia
Broadcast(trivia_id, event_type) ==
  /\ published < MaxBroadcasts
  /\ Emit(trivia_id, <<payload_event(event_type)>>)
  /\ response' = NoRow
  /\ UNCHANGED <<now, nBindings, trivia, participations, answers, req,
                 serial, advances>>

\* a stream has a frame to yield: an event on its queue or a timeout due
StreamDue(c) ==
  /\ stream[c].pc = "wait"
  /\ queue[c] # <<>> \/ wait_for_expired(stream[c].last, now)

\* The clock moves one keepalive timeout on.  The event loop runs the
\* streams that are due before its clock is seen to move.
SseTick ==
  /\ now + timeout \in SseInstants
  /\ \A c \in ClientIds : stream[c].pc # "connect" /\ ~StreamDue(c)
  /\ now' = now + timeout
  /\ response' = NoRow
  /\ UNCHANGED <<nBindings, trivia, participations, answers, req, serial,
                 advances>>
  /\ UNCHANGED sseVars

Next ==
  \/ Tick
  \/ \E n \in 0..MaxBindings : CreateTrivia(n)
  \/ \E u \in Players : AddPlayer(u)
  \/ \E i \in Procs, u \in Players : JoinGet(i, u)
  \/ \E i \in Procs : JoinFlip(i)
  \/ \E i \in Procs : JoinFind(i)
  \/ \E i \in Procs : JoinSave(i)
  \/ \E i \in Procs, u \in Players : SetReadyGet(i, u)
  \/ \E i \in Procs : SetReadySave(i)
  \/ \E i \in Procs, u \in Players : HeartbeatGet(i, u)
  \/ \E i \in Procs : HeartbeatSave(i)
  \/ \E i \in Procs, c \in {Admin, 1} : StartGet(i, c)
  \/ \E i \in Procs : StartList(i)
  \/ \E i \in Procs : StartUpdate(i)
  \/ \E i \in Procs : StartTail(i)
  \/ \E i \in Procs, c \in {Admin, 1} : AdvanceGet(i, c)
  \/ \E i \in Procs : AdvanceUpdate(i)
  \/ \E i \in Procs, u \in Players, o \in SubmittedOptions :
       SubmitGet(i, u, o)
  \/ \E i \in Procs : SubmitInsert(i)
  \/ \E i \in Procs : SubmitScore(i)
  \/ \E i \in Procs : ResetGet(i)
  \/ \E i \in Procs : ResetDelete(i)
  \/ \E i \in Procs : ResetCommit(i)

Spec == Init /\ [][Next]_vars

\* The lobby phase with requests overlapping: the handlers a trivia accepts
\* before its first question.
LobbyNext ==
  \/ Tick
  \/ \E n \in 0..MaxBindings : CreateTrivia(n)
  \/ \E u \in Players : AddPlayer(u)
  \/ \E i \in Procs, u \in Players : JoinGet(i, u)
  \/ \E i \in Procs : JoinFlip(i)
  \/ \E i \in Procs : JoinFind(i)
  \/ \E i \in Procs : JoinSave(i)
  \/ \E i \in Procs, u \in Players : SetReadyGet(i, u)
  \/ \E i \in Procs : SetReadySave(i)
  \/ \E i \in Procs, u \in Players : HeartbeatGet(i, u)
  \/ \E i \in Procs : HeartbeatSave(i)
  \/ \E i \in Procs, c \in {Admin, 1} : StartGet(i, c)
  \/ \E i \in Procs : StartList(i)
  \/ \E i \in Procs : StartUpdate(i)
  \/ \E i \in Procs : StartTail(i)

LobbySpec == InitLobby /\ [][LobbyNext]_vars

\* The trivia as create_trivia, a Join by every player at instant 0 and a
\* Start at instant 0 leave it: first question open, nothing answered.
InitGame ==
  /\ now = 0
  /\ nBindings \in 1..MaxBindings
  /\ trivia = StartedTrivia([NewTrivia EXCEPT !.status = "LOBBY"], 0)
  /\ participations =
       [p \in Players |-> JoinedRow(InvitedRow(p, p), 0)]
  /\ answers = {}
  /\ req = [i \in Procs |-> IdleReq]
  /\ response = NoRow
  /\ serial = FALSE
  /\ advances = 0
  /\ SseInit

\* The game phase with requests overlapping: the handlers that read or
\* write answers and scores while questions are open.
GameNext ==
  \/ Tick
  \/ \E i \in Procs, c \in {Admin, 1} : AdvanceGet(i, c)
  \/ \E i \in Procs : AdvanceUpdate(i)
  \/ \E i \in Procs, u \in Players, o \in SubmittedOptions :
       SubmitGet(i, u, o)
  \/ \E i \in Procs : SubmitInsert(i)
  \/ \E i \in Procs : SubmitScore(i)
  \/ \E i \in Procs : ResetGet(i)
  \/ \E i \in Procs : ResetDelete(i)
  \/ \E i \in Procs : ResetCommit(i)

GameSpec == InitGame /\ [][GameNext]_vars

\* The trivia of InitGame on a server of either kind.
InitLifeline ==
  /\ now = 0
  /\ nBindings \in 1..MaxBindings
  /\ trivia = StartedTrivia([NewTrivia EXCEPT !.status = "LOBBY"], 0)
  /\ participations =
       [p \in Players |-> JoinedRow(InvitedRow(p, p), 0)]
  /\ answers = {}
  /\ req = [i \in Procs |-> IdleReq]
  /\ response = NoRow
  /\ serial \in BOOLEAN
  /\ advances = 0
  /\ SseInit

\* The game phase with the lifeline: the handlers that read or write the
\* lifeline columns of a participation, and those that decide whether the
\* lifeline may be used.  The lifeline reads of an answer only that it
\* exists, so the players answer with the correct option.
LifelineNext ==
  \/ \E i \in Procs, u \in Players, q \in 1..MaxBindings : FiftyGet(i, u, q)
  \/ \E i \in Procs : FiftySave(i)
  \/ \E i \in Procs, c \in {Admin, 1} : AdvanceGet(i, c)
  \/ \E i \in Procs : AdvanceUpdate(i)
  \/ \E i \in Procs, u \in Players, q \in 1..MaxBindings :
       SubmitGet(i, u, correct_option(q))
  \/ \E i \in Procs : SubmitInsert(i)
  \/ \E i \in Procs : SubmitScore(i)
  \/ \E i \in Procs : ResetGet(i)
  \/ \E i \in Procs : ResetDelete(i)
  \/ \E i \in Procs : ResetCommit(i)

LifelineSpec == InitLifeline /\ [][LifelineNext]_vars

\* The event hub by itself: tickets are issued and presented, clients
\* subscribe and stream, and a publisher broadcasts events.
SseNext ==
  \/ SseTick
  \/ \E tv \in TriviaIds, u \in {1} : create_sse_ticket(tv, u)
  \/ \E c \in ClientIds, tv \in TriviaIds, t \in Tokens :
       stream_trivia_events(c, tv, t)
  \/ \E c \in ClientIds : StreamConnected(c)
  \/ \E c \in ClientIds : StreamEvent(c)
  \/ \E c \in ClientIds : StreamKeepalive(c)
  \/ \E c \in ClientIds : StreamClosed(c)
  \/ \E tv \in TriviaIds, ty \in {"lobby_updated"} : Broadcast(tv, ty)

SseSpec == InitLobby /\ [][SseNext]_vars

\* The database is empty and the server runs one request at a time; a
\* client holds a ticket for trivia 1 and its stream is waiting.
InitEvents ==
  /\ now = 0
  /\ nBindings = 0
  /\ trivia = NoRow
  /\ participations = <<>>
  /\ answers = {}
  /\ req = [i \in Procs |-> IdleReq]
  /\ response = NoRow
  /\ serial = TRUE
  /\ advances = Null
  /\ tickets = [t \in Tokens |->
       IF t = 1 THEN [trivia_id |-> NewTrivia.id, user_id |-> 1,
                      expires_at |-> expires_in_seconds]
       ELSE NoRow]
  /\ clients = [tv \in TriviaIds |-> IF tv = NewTrivia.id THEN {1} ELSE {}]
  /\ queue = [c \in ClientIds |-> <<>>]
  /\ stream = [c \in ClientIds |->
       IF c = 1 THEN [pc |-> "wait", trivia_id |-> NewTrivia.id,
                      user_id |-> 1, ticket |-> 1, last |-> 0, sent |-> 0,
                      frame |-> "connected"]
       ELSE NoClient]
  /\ published = 0

\* The commands of the engine, one at a time, in front of a subscriber.
EventNext ==
  \/ Tick
  \/ \E n \in 0..MaxBindings : CreateTrivia(n)
  \/ \E u \in Players : AddPlayer(u)
  \/ \E i \in Procs, u \in Players : JoinGet(i, u)
  \/ \E i \in Procs : JoinFlip(i)
  \/ \E i \in Procs : JoinFind(i)
  \/ \E i \in Procs : JoinSave(i)
  \/ \E i \in Procs, u \in Players : SetReadyGet(i, u)
  \/ \E i \in Procs : SetReadySave(i)
  \/ \E i \in Procs, u \in Players : HeartbeatGet(i, u)
  \/ \E i \in Procs : HeartbeatSave(i)
  \/ \E i \in Procs, c \in {Admin, 1} : StartGet(i, c)
  \/ \E i \in Procs : StartList(i)
  \/ \E i \in Procs : StartUpdate(i)
  \/ \E i \in Procs : StartTail(i)
  \/ \E i \in Procs, c \in {Admin, 1} : AdvanceGet(i, c)
  \/ \E i \in Procs : AdvanceUpdate(i)
  \/ \E i \in Procs, u \in Players, q \in 1..MaxBindings :
       SubmitGet(i, u, correct_option(q))
  \/ \E i \in Procs : SubmitInsert(i)
  \/ \E i \in Procs : SubmitScore(i)
  \/ \E i \in Procs, u \in Players, q \in 1..MaxBindings : FiftyGet(i, u, q)
  \/ \E i \in Procs : FiftySave(i)
  \/ \E i \in Procs : ResetGet(i)
  \/ \E i \in Procs : ResetDelete(i)
  \/ \E i \in Procs : ResetCommit(i)

EventSpec == InitEvents /\ [][EventNext]_vars

\* The game phase with the ranking: answers are stored and scored while the
\* ranking is read, requests overlapping.
RankingNext ==
  \/ Tick
  \/ \E i \in Procs, c \in {Admin, 1} : AdvanceGet(i, c)
  \/ \E i \in Procs : AdvanceUpdate(i)
  \/ \E i \in Procs, u \in Players, o \in SubmittedOptions :
       SubmitGet(i, u, o)
  \/ \E i \in Procs : SubmitInsert(i)
  \/ \E i \in Procs : SubmitScore(i)
  \/ \E i \in Procs : RankingGet(i)
  \/ \E i \in Procs : RankingList(i)

RankingSpec == InitGame /\ [][RankingNext]_vars


\* The commands that write the trivia row, requests overlapping, from an
\* empty database: one player joins, the creator starts, advances, resets.
CommandNext ==
  \/ Tick
  \/ \E n \in 0..MaxBindings : CreateTrivia(n)
  \/ \E i \in Procs, u \in {1} : JoinGet(i, u)
  \/ \E i \in Procs : JoinFlip(i)
  \/ \E i \in Procs : JoinFind(i)
  \/ \E i \in Procs : JoinSave(i)
  \/ \E i \in Procs : StartGet(i, Admin)
  \/ \E i \in Procs : StartList(i)
  \/ \E i \in Procs : StartUpdate(i)
  \/ \E i \in Procs : StartTail(i)
  \/ \E i \in Procs : AdvanceGet(i, Admin)
  \/ \E i \in Procs : AdvanceUpdate(i)
  \/ \E i \in Procs : ResetGet(i)
  \/ \E i \in Procs : ResetDelete(i)
  \/ \E i \in Procs : ResetCommit(i)

CommandSpec == InitLobby /\ [][CommandNext]_vars

\* A started trivia of MaxScored questions, one of each difficulty, first
\* question open, nothing answered; requests overlap.
InitScoring ==
  /\ now = 0
  /\ nBindings = MaxScored
  /\ trivia = StartedTrivia([NewTrivia EXCEPT !.status = "LOBBY"], 0)
  /\ participations =
       [p \in Players |-> JoinedRow(InvitedRow(p, p), 0)]
  /\ answers = {}
  /\ req = [i \in Procs |-> IdleReq]
  /\ response = NoRow
  /\ serial = FALSE
  /\ advances = 0
  /\ SseInit

\* Scoring: the Submits of a player take their answered_at, then read; the
\* player reads the current question; the creator advances and the clock
\* moves in between.
ScoringNext ==
  \/ Tick
  \/ \E i \in Procs : AdvanceGet(i, Admin)
  \/ \E i \in Procs : AdvanceUpdate(i)
  \/ \E i \in Procs, u \in {1}, o \in ScoredOptions : SubmitStamp(i, u, o)
  \/ \E i \in Procs : SubmitRead(i)
  \/ \E i \in Procs : SubmitInsert(i)
  \/ \E i \in Procs : SubmitScore(i)
  \/ \E i \in Procs, u \in {1} : GetCurrentQuestion(i, u)

ScoringSpec == InitScoring /\ [][ScoringNext]_vars

\* A started trivia of MaxScored questions, the last with fewer than four
\* options; player 1 participates, player 2 does not; one request at a time.
InitFifty ==
  /\ now = 0
  /\ nBindings = MaxScored
  /\ trivia = StartedTrivia([NewTrivia EXCEPT !.status = "LOBBY"], 0)
  /\ participations = <<JoinedRow(InvitedRow(1, 1), 0)>>
  /\ answers = {}
  /\ req = [i \in Procs |-> IdleReq]
  /\ response = NoRow
  /\ serial = TRUE
  /\ advances = 0
  /\ SseInit

\* The lifeline called for every question by a participant and by a
\* stranger, while the participant answers and the creator advances.
FiftyNext ==
  \/ \E i \in Procs, u \in Players, q \in Questions : FiftyGet(i, u, q)
  \/ \E i \in Procs : FiftySave(i)
  \/ \E i \in Procs : AdvanceGet(i, Admin)
  \/ \E i \in Procs : AdvanceUpdate(i)
  \/ \E i \in Procs, q \in Questions : SubmitGet(i, 1, correct_option(q))
  \/ \E i \in Procs : SubmitInsert(i)
  \/ \E i \in Procs : SubmitScore(i)

FiftySpec == InitFifty /\ [][FiftyNext]_vars

\* A started trivia, first question open; player 1 participates, player 2
\* does not; requests overlap.
InitPresence ==
  /\ now = 0
  /\ nBindings = MaxBindings
  /\ trivia = StartedTrivia([NewTrivia EXCEPT !.status = "LOBBY"], 0)
  /\ participations = <<JoinedRow(InvitedRow(1, 1), 0)>>
  /\ answers = {}
  /\ req = [i \in Procs |-> IdleReq]
  /\ response = NoRow
  /\ serial = FALSE
  /\ advances = 0
  /\ SseInit

\* Heartbeats while the player answers and uses the lifeline: the handlers
\* that write a participation during the game.
PresenceNext ==
  \/ Tick
  \/ \E i \in Procs, u \in Players : HeartbeatGet(i, u)
  \/ \E i \in Procs : HeartbeatSave(i)
  \/ \E i \in Procs, o \in SubmittedOptions : SubmitGet(i, 1, o)
  \/ \E i \in Procs : SubmitInsert(i)
  \/ \E i \in Procs : SubmitScore(i)
  \/ \E i \in Procs, q \in 1..MaxBindings : FiftyGet(i, 1, q)
  \/ \E i \in Procs : FiftySave(i)

PresenceSpec == InitPresence /\ [][PresenceNext]_vars

\* the lobby seen through its two views: one request at a time, three
\* accounts of which two share a name, the clock moving by the presence TTL
InitView == InitWith(TRUE)

ViewNext ==
  \/ PresenceTick
  \/ \E n \in 0..MaxBindings : CreateTrivia(n)
  \/ \E u \in Users : AddPlayer(u)
  \/ \E i \in Procs, u \in Users : JoinGet(i, u)
  \/ \E i \in Procs : JoinFlip(i)
  \/ \E i \in Procs : JoinFind(i)
  \/ \E i \in Procs : JoinSave(i)
  \/ \E i \in Procs, u \in Users : HeartbeatGet(i, u)
  \/ \E i \in Procs : HeartbeatSave(i)
  \/ \E i \in Procs : GetAdminLobby(i)
  \/ \E i \in Procs : GetPlayerLobby(i)

ViewSpec == InitView /\ [][ViewNext]_vars

\* the ticket store over time: tickets are issued and presented while the
\* clock runs; time passes and the event loop runs every stream that can
\* take a step, while requests come as clients choose to send them
TicketNext ==
  \/ SseTick
  \/ \E tv \in TriviaIds, u \in {1} : create_sse_ticket(tv, u)
  \/ \E c \in ClientIds, tv \in TriviaIds, t \in Tokens :
       stream_trivia_events(c, tv, t)
  \/ \E c \in ClientIds : StreamConnected(c)
  \/ \E c \in ClientIds : StreamKeepalive(c)
  \/ \E c \in ClientIds : StreamClosed(c)

TicketSpec ==
  /\ InitLobby
  /\ [][TicketNext]_vars
  /\ WF_vars(SseTick)
  /\ \A c \in ClientIds :
       WF_vars(StreamConnected(c)) /\ WF_vars(StreamKeepalive(c))

\* Joins and Starts of a trivia that overlap, in front of a subscriber whose
\* stream has not yet taken an event off its queue: the queue holds the
\* events in the order in which the subscriber will receive them.
InitOrder ==
  /\ now = 0
  /\ nBindings = MaxBindings
  /\ trivia = NewTrivia
  /\ participations = <<>>
  /\ answers = {}
  /\ req = [i \in Procs |-> IdleReq]
  /\ response = NoRow
  /\ serial = FALSE
  /\ advances = Null
  /\ tickets = [t \in Tokens |->
       IF t = 1 THEN [trivia_id |-> NewTrivia.id, user_id |-> 1,
                      expires_at |-> expires_in_seconds]
       ELSE NoRow]
  /\ clients = [tv \in TriviaIds |-> IF tv = NewTrivia.id THEN {1} ELSE {}]
  /\ queue = [c \in ClientIds |-> <<>>]
  /\ stream = [c \in ClientIds |->
       IF c = 1 THEN [pc |-> "wait", trivia_id |-> NewTrivia.id,
                      user_id |-> 1, ticket |-> 1, last |-> 0, sent |-> 0,
                      frame |-> "connected"]
       ELSE NoClient]
  /\ published = 0

OrderNext ==
  \/ \E i \in Procs, u \in Players : JoinGet(i, u)
  \/ \E i \in Procs : JoinFlip(i)
  \/ \E i \in Procs : JoinFind(i)
  \/ \E i \in Procs : JoinSave(i)
  \/ \E i \in Procs : StartGet(i, Admin)
  \/ \E i \in Procs : StartList(i)
  \/ \E i \in Procs : StartUpdate(i)
  \/ \E i \in Procs : StartTail(i)

OrderSpec == InitOrder /\ [][OrderNext]_vars

(* ============================== claims ================================ *)
Quiescent == \A i \in Procs : req[i].pc = "idle"

\* the Answer row a Submit by user u finds for the current question
StoredAnswer(u) ==
  get_by_participation_and_trivia_question(
    get_by_trivia_and_user(u).id, BindingAt(trivia.current_question_index).id)

\* C1: on a server that runs one command at a time, whenever no command is
\* in progress every participation's stored score is the sum of
\* earned_points over its Answer rows (0 when it has none).
C1_ScoreIsSumOfAnswers ==
  Quiescent =>
    \A p \in Pids : participations[p].score = SumPoints(AnswersOf(p))

\* C1 witness: between commands, a participation holds two answers and a
\* score that is their sum.
C1_Witness ==
  /\ Quiescent
  /\ \E p \in Pids : /\ Cardinality(AnswersOf(p)) = 2
                     /\ participations[p].score > 1
                     /\ participations[p].score = SumPoints(AnswersOf(p))

\* C2: in every reachable state, overlapping Submits included, no two Answer
\* rows have the same (participation_id, trivia_question_id).
C2_AnswersUnique ==
  \A a, b \in answers :
    (a.participation_id = b.participation_id
       /\ a.trivia_question_id = b.trivia_question_id) => a = b

\* C2 witness: two Submits of one player for one question overlapped; the
\* second INSERT was rejected and the first row is stored.
C2_Witness ==
  /\ response = Err("submit", "Conflict")
  /\ answers # {}

C5_StartGuards ==
  [][\A i \in Procs :
       /\ (StartList(i) /\ req'[i].pc = "start_update")
            => /\ req[i].user = Admin
               /\ trivia.status = "LOBBY"
               /\ Len(participations) > 0
               /\ \A p \in Pids :
                    /\ participations[p].status = "READY"
                    /\ is_present(participations[p], now)
       /\ (StartList(i) \/ \E c \in {Admin, 1} : StartGet(i, c))
            => trivia' = trivia]_vars

\* C6: of the Start commands in flight for one LOBBY trivia at most one
\* commits: a Start writes status, started_at and question_started_at only
\* onto a trivia that is still in LOBBY.
C6_StartWritesOnce ==
  [][\A i \in Procs : StartUpdate(i) => trivia.status = "LOBBY"]_vars

C8_JoinTwiceSameParticipation ==
  [][\A i \in Procs :
       JoinSave(i) =>
         LET u == req[i].user
             before == {p \in DOMAIN participations :
                          participations[p].user = u}
             after == {p \in DOMAIN participations' :
                         participations'[p].user = u}
         IN /\ response' # NoRow
            /\ response'.err = "none"
            /\ after = {response'.val.participation_id}
            /\ before # {} => after = before
            /\ \A p \in after : participations'[p].status = "READY"
            /\ \A p \in DOMAIN participations :
                 participations[p].status = "READY"
                   => participations'[p].status = "READY"]_vars

\* C8 witness: a Join by a user whose participation is already joined and
\* READY is about to save it; only last_seen_at is left to write.
C8_Witness ==
  \E i \in Procs :
    /\ req[i].pc = "join_save"
    /\ req[i].loc.pid # 0
    /\ DOMAIN req[i].loc.ws = {"last_seen_at"}
    /\ participations[req[i].loc.pid].status = "READY"

\* C9: every change of the trivia's status is DRAFT to LOBBY by a Join,
\* LOBBY to IN_PROGRESS by a Start, IN_PROGRESS to FINISHED by an Advance
\* with no question left, or LOBBY, IN_PROGRESS or FINISHED to LOBBY by a
\* Reset.
C9_PermittedTransitions ==
  [][(trivia # NoRow /\ trivia' # NoRow /\ trivia'.status # trivia.status)
       => \/ /\ trivia.status = "DRAFT" /\ trivia'.status = "LOBBY"
             /\ \E i \in Procs : JoinFlip(i)
          \/ /\ trivia.status = "LOBBY" /\ trivia'.status = "IN_PROGRESS"
             /\ \E i \in Procs : StartUpdate(i)
          \/ /\ trivia.status = "IN_PROGRESS" /\ trivia'.status = "FINISHED"
             /\ trivia.current_question_index + 1 >= nBindings
             /\ \E i \in Procs : AdvanceUpdate(i)
          \/ /\ trivia.status \in {"LOBBY", "IN_PROGRESS", "FINISHED"}
             /\ trivia'.status = "LOBBY"
             /\ \E i \in Procs : ResetCommit(i)]_vars

C11_ResetClearsEverything ==
  [][\A i \in Procs :
       (serial /\ ResetCommit(i))
       => /\ answers' = {}
          /\ \A p \in Pids :
               /\ participations'[p].score = 0
               /\ participations'[p].fifty_fifty_used = FALSE
               /\ participations'[p].fifty_fifty_question_id = Null
          /\ trivia'.status = "LOBBY"
          /\ trivia'.current_question_index = 0
          /\ trivia'.question_started_at = Null
          /\ trivia'.started_at = Null
          /\ trivia'.finished_at = Null]_vars

\* C12: a participation uses the 50/50 lifeline successfully at most once:
\* whenever a use succeeds, overlapping uses included, no earlier use by the
\* same participation has succeeded (fifty_fifty_used, which only a
\* successful use sets and nothing clears, is still false).
C12_LifelineAtMostOnce ==
  [][\A i \in Procs :
       FiftySave(i)
       => ~participations[req[i].loc.pid].fifty_fifty_used]_vars

\* C13: every successful 50/50 returns exactly two options, different from
\* each other, both options of one question, one of them the correct option
\* and the other an option with is_correct false, whatever random.choice
\* and random.shuffle pick; when no other command ran during the use, that
\* question is the trivia's current question.
C13_FiftyReturnsCorrectAndIncorrect ==
  (response # NoRow /\ response.op = "fifty" /\ response.err = "none")
  => LET allowed == response.val.allowed_options IN
     /\ Len(allowed) = 2
     /\ allowed[1] # allowed[2]
     /\ \E q \in Questions :
          /\ {allowed[1], allowed[2]} \subseteq OptionsOf(q)
          /\ serial =>
               q = BindingAt(trivia.current_question_index).question_id
     /\ \E k \in 1..2 : /\ OptionIsCorrect(allowed[k])
                        /\ ~OptionIsCorrect(allowed[3 - k])

\* C13 witness: a use on the second question returned the pair with the
\* incorrect option first, the last of the question's options.
C13_Witness ==
  /\ response # NoRow
  /\ response.op = "fifty"
  /\ response.err = "none"
  /\ response.val.allowed_options = <<(<<2, NumOptions>>), (<<2, 1>>)>>
  /\ trivia.current_question_index = 1

\* C14: a ticket is single-use: once a token has been validated and has
\* admitted a subscription, every later request that presents the same
\* token is refused by validate_ticket and subscribes no client.
C14_TicketSingleUse ==
  [][\A c \in ClientIds, tv \in TriviaIds, t \in Tokens :
       (/\ \E c2 \in ClientIds : stream[c2].ticket = t
        /\ stream_trivia_events(c, tv, t))
       => /\ response' = Err("events", "Unauthorized")
          /\ stream' = stream
          /\ clients' = clients]_vars

\* client c holds a subscription to the trivia, by its own record
Subscribed(c, trivia_id) ==
  stream[c].pc \in {"connect", "wait"} /\ stream[c].trivia_id = trivia_id

\* how many times event e is on queue q
Occurrences(q, e) == Cardinality({k \in DOMAIN q : q[k] = e})

\* C17: a broadcast for a trivia puts the event exactly once on the queue of
\* every client subscribed to that trivia at that moment, puts it on the
\* queue of no other client, and leaves what the queues held before.
C17_BroadcastReachesSubscribersOnce ==
  [][\A tv \in TriviaIds, ty \in {"lobby_updated"} :
       Broadcast(tv, ty)
       => LET e == [event |-> ty, data |-> NoRow, trivia_id |-> tv,
                    seq |-> published + 1] IN
          \A c \in ClientIds :
            /\ Occurrences(queue'[c], e) =
                 IF Subscribed(c, tv) THEN 1 ELSE 0
            /\ SubSeq(queue'[c], 1, Len(queue[c])) = queue[c]
            /\ Len(queue'[c]) =
                 Len(queue[c]) + IF Subscribed(c, tv) THEN 1 ELSE 0]_vars

\* C17 witness: one client streams trivia 1 and one trivia 2; the only
\* broadcast so far, for trivia 1, is once on the first client's queue and
\* the second client's queue is empty.
C17_Witness ==
  \E c1, c2 \in ClientIds :
    /\ Subscribed(c1, 1)
    /\ Subscribed(c2, 2)
    /\ published = 1
    /\ Len(queue[c1]) = 1
    /\ queue[c1][1].trivia_id = 1
    /\ queue[c2] = <<>>

\* C18: events reach a subscriber in the order of their publication: on
\* every client's queue the events stand in the order in which they were
\* broadcast, and every event the stream has yielded was broadcast before
\* every event still on the queue, so the frames leave in queue order.
C18_EventsInPublicationOrder ==
  \A c \in ClientIds :
    /\ \A k \in 1..(Len(queue[c]) - 1) :
         queue[c][k].seq < queue[c][k + 1].seq
    /\ queue[c] # <<>> => stream[c].sent < queue[c][1].seq

\* C18 witness: a stream has yielded the first two events broadcast to its
\* trivia, the second one last, and the third is on its queue.
C18_Witness ==
  \E c \in ClientIds :
    /\ stream[c].frame = "event"
    /\ stream[c].sent = 2
    /\ Len(queue[c]) = 1
    /\ queue[c][1].seq = 3
    /\ queue[c][1].trivia_id = stream[c].trivia_id

\* C19: a connected stream never stays silent for longer than the keepalive
\* timeout: whenever the clock is read, the stream's last frame (connected,
\* event or keepalive) is at most `timeout` seconds old; and a stream that
\* has yielded a keepalive goes on waiting until its client disconnects.
C19_KeepaliveWithinTimeout ==
  \A c \in ClientIds :
    /\ stream[c].pc = "wait" => now - stream[c].last <= timeout
    /\ stream[c].frame = "keepalive" => stream[c].pc \in {"wait", "closed"}

\* C19 witness: no event was ever published; three timeouts into the run a
\* stream has just yielded a keepalive and waits again.
C19_Witness ==
  \E c \in ClientIds :
    /\ published = 0
    /\ now = 3 * timeout
    /\ stream[c].pc = "wait"
    /\ stream[c].frame = "keepalive"
    /\ stream[c].last = now

\* the events a step has added to client c's queue
NewEvents(c) ==
  {queue'[c][k] : k \in (Len(queue[c]) + 1)..Len(queue'[c])}

\* C15: when a Join, a Start, an Advance or a Reset returns success, every
\* client that was subscribed to the trivia has received on its queue, from
\* that command, a status_updated event with the trivia's new state and
\* question index, and a current_question_updated event too when the command
\* is a Start or an Advance that leaves the trivia IN_PROGRESS.  (A command
\* broadcasts nothing after it has returned, so an event that is not on the
\* queue by then never arrives.)
C15_CommandsPublishStatus ==
  [][(/\ response' # NoRow
      /\ response'.err = "none"
      /\ response'.op \in {"join", "start", "advance", "reset"})
     => \A c \in ClientIds :
          Subscribed(c, trivia'.id)
          => /\ \E e \in NewEvents(c) :
                  /\ e.event = "status_updated"
                  /\ e.data.state = state_map(trivia'.status)
                  /\ e.data.current_question_index =
                       trivia'.current_question_index
             /\ (response'.op \in {"start", "advance"}
                   /\ trivia'.status = "IN_PROGRESS")
                => \E e \in NewEvents(c) :
                     e.event = "current_question_updated"]_vars

\* C16: the step in which a Join, SetReady, Start, Advance, Submit, 50/50 or
\* Heartbeat answers its caller with an error broadcasts no event and
\* writes no trivia, participation or answer; a Start whose current question
\* cannot be loaded is such a command.
C16_ErrorsLeaveNoTrace ==
  [][(/\ response' # NoRow
      /\ response'.err # "none"
      /\ response'.op \in {"join", "ready", "start", "advance", "submit",
                           "fifty", "heartbeat"})
     => /\ queue' = queue
        /\ published' = published
        /\ trivia' = trivia
        /\ participations' = participations
        /\ answers' = answers]_vars

\* C20: every ranking that GetRanking returns lists its entries in
\* non-increasing score order, and the position of the k-th entry is k, so
\* the positions are 1..M for M entries, without gap or repeat.
C20_RankingOrderedAndNumbered ==
  (response # NoRow /\ response.op = "ranking" /\ response.err = "none")
  => LET ranking == response.val.ranking IN
     \A k \in 1..Len(ranking) :
       /\ ranking[k].position = k
       /\ k < Len(ranking) => ranking[k].score >= ranking[k + 1].score

\* C20 witness: a ranking of two entries in which the second player leads
\* and the first player has scored, too.
C20_Witness ==
  /\ response # NoRow
  /\ response.op = "ranking"
  /\ response.err = "none"
  /\ Len(response.val.ranking) = 2
  /\ response.val.ranking[1].user_id = 2
  /\ response.val.ranking[1].score > response.val.ranking[2].score
  /\ response.val.ranking[2].score > 0

\* C21: Submit reports the error of the first precondition that fails, in
\* the order trivia exists (NotFound), status IN_PROGRESS (InvalidState),
\* question_started_at set (InvalidState), participation exists (NotFound),
\* a binding at current_question_index (NotFound), the option belongs to
\* that binding's question (NotFound); a failing Submit creates no Answer,
\* changes no participation and ends there, and a Submit none of whose
\* preconditions fails reports none of these errors.
C21_SubmitChecksInOrder ==
  [][\A i \in Procs, u \in Players, o \in AllOptions :
       SubmitGet(i, u, o) =>
         LET failed(kind) == /\ response' = Err("submit", kind)
                             /\ answers' = answers
                             /\ participations' = participations
                             /\ req' = req
         IN
         IF trivia = NoRow THEN failed("NotFound")
         ELSE IF trivia.status # "IN_PROGRESS" THEN failed("InvalidState")
         ELSE IF trivia.question_started_at = Null
           THEN failed("InvalidState")
         ELSE IF \A p \in Pids : participations[p].user # u
           THEN failed("NotFound")
         ELSE IF trivia.current_question_index \notin 0..(nBindings - 1)
           THEN failed("NotFound")
         ELSE IF o[1] # BindingAt(trivia.current_question_index).question_id
           THEN failed("NotFound")
         ELSE response' = NoRow \/ response'.err = "none"]_vars

\* C21 witness: a Submit failed NotFound on its last check: the trivia is
\* IN_PROGRESS with its question started, every player participates and
\* the current binding exists, so the option was of another question.
C21_Witness ==
  /\ response = Err("submit", "NotFound")
  /\ trivia # NoRow
  /\ trivia.status = "IN_PROGRESS"
  /\ trivia.question_started_at # Null
  /\ \A u \in Players : get_by_trivia_and_user(u) # NoRow
  /\ BindingAt(trivia.current_question_index) # NoRow

\* C22: Submit's INSERT of the Answer and its recompute of the score are one
\* atomic step: in every state another command can observe, a participation
\* that has Answer rows stores as score the sum of their earned_points.
C22_VisibleAnswerImpliesScore ==
  \A p \in Pids :
    AnswersOf(p) # {} => participations[p].score = SumPoints(AnswersOf(p))

\* C23: the commands on a trivia are serialized: every write of the trivia
\* row by a Join, a Start, an Advance or a Reset changes the row as that
\* command changes the row it finds at that moment, and under its own
\* precondition (a Join is accepted in DRAFT and in LOBBY and leaves LOBBY);
\* no write carries values computed from an older row.
C23_CommandsSerialized ==
  [][\A i \in Procs :
       /\ JoinFlip(i) =>
            /\ trivia.status \in {"DRAFT", "LOBBY"}
            /\ trivia' = [trivia EXCEPT !.status = "LOBBY"]
       /\ StartUpdate(i) =>
            /\ trivia.status = "LOBBY"
            /\ \E t \in Instants : trivia' = StartedTrivia(trivia, t)
       /\ AdvanceUpdate(i) =>
            /\ trivia.status = "IN_PROGRESS"
            /\ \E t \in Instants :
                 trivia' = AdvancedTrivia(trivia, nBindings, t)
       /\ ResetCommit(i) => trivia' = ResetTrivia(trivia)]_vars

\* C24: a first Submit with time remaining greater than 0 computes
\* is_correct as the selected option's flag and earned_points as 1 for an
\* EASY, 2 for a MEDIUM and 3 for a HARD question when the option is
\* correct and 0 otherwise, and returns what it computed; every stored
\* Answer has earned_points 0 or the points of its question's difficulty.
C24_PointsByDifficulty ==
  [][LET points(q) == CASE QuestionDifficulty(q) = "EASY" -> 1
                        [] QuestionDifficulty(q) = "MEDIUM" -> 2
                        [] QuestionDifficulty(q) = "HARD" -> 3
     IN
     /\ \A i \in Procs :
          /\ (SubmitRead(i) /\ req'[i].pc = "submit_insert"
                /\ req'[i].loc.remaining > 0)
               => LET o == req[i].loc.selected_option_id
                      a == req'[i].loc.answer
                  IN /\ a.selected_option_id = o
                     /\ a.is_correct = OptionIsCorrect(o)
                     /\ a.earned_points =
                          IF OptionIsCorrect(o) THEN points(o[1]) ELSE 0
          /\ (SubmitInsert(i) /\ answers' # answers)
               => answers' = answers \cup {req[i].loc.answer}
          /\ SubmitScore(i)
               => /\ response'.val.is_correct = req[i].loc.answer.is_correct
                  /\ response'.val.earned_points =
                       req[i].loc.answer.earned_points
     /\ \A a \in answers' :
          a.earned_points \in
            {0, points(BindingAt(a.trivia_question_id - 1).question_id)}]_vars

\* C24 witness: a first Submit with time remaining chose the correct option
\* of the HARD question and was answered correct with 3 points, which are
\* stored; the answer to the MEDIUM question earned 2.
C24_Witness ==
  /\ response # NoRow
  /\ response.op = "submit"
  /\ response.err = "none"
  /\ response.val.created
  /\ response.val.time_remaining_seconds > 0
  /\ response.val.is_correct
  /\ QuestionDifficulty(response.val.selected_option_id[1]) = "HARD"
  /\ response.val.earned_points = 3
  /\ \E a, b \in answers :
       /\ a.selected_option_id = response.val.selected_option_id
       /\ a.earned_points = 3
       /\ QuestionDifficulty(b.selected_option_id[1]) = "MEDIUM"
       /\ b.earned_points = 2

\* C25: the time remaining that Submit computes and reports, and the time
\* remaining that GetCurrentQuestion reports, is never less than 0 and
\* never more than the binding's time limit, also when answered_at precedes
\* question_started_at.
C25_TimeRemainingWithinLimit ==
  /\ \A i \in Procs :
       req[i].pc \in {"submit_insert", "submit_score"}
         => req[i].loc.remaining \in 0..time_limit_seconds
  /\ (response # NoRow /\ response.op \in {"submit", "current_question"}
        /\ response.err = "none")
       => response.val.time_remaining_seconds \in 0..time_limit_seconds

\* C26: of two Submits for one (participation, question) that both passed
\* the existence check exactly one inserts: the Submit that reaches its
\* INSERT when the other's row is stored returns Conflict, inserts nothing
\* and changes no participation, the Submit that finds no row inserts its
\* own; when the race is over and nothing else is in flight the
\* participation has one Answer for the question and its score is the sum
\* of earned_points over its Answers.
C26_RaceHasOneWinner ==
  [][\A i \in Procs :
       LET a == req[i].loc.answer
           rows(S) == {b \in S : /\ b.participation_id = a.participation_id
                                 /\ b.trivia_question_id =
                                      a.trivia_question_id}
           alone == \A j \in Procs \ {i} : req[j].pc = "idle"
           settled ==
             participations'[a.participation_id].score =
               SumPoints({b \in answers' :
                            b.participation_id = a.participation_id})
       IN
       /\ (SubmitInsert(i) /\ rows(answers) # {})
            => /\ response' = Err("submit", "Conflict")
               /\ answers' = answers
               /\ participations' = participations
               /\ req'[i] = IdleReq
               /\ Cardinality(rows(answers')) = 1
               /\ alone => settled
       /\ (SubmitInsert(i) /\ rows(answers) = {})
            => /\ answers' = answers \cup {a}
               /\ Cardinality(rows(answers')) = 1
       /\ (SubmitScore(i) /\ alone) => settled]_vars

\* C26 witness: the loser of a race has just been answered Conflict after
\* the winner finished; the winner's answer is the only one for the
\* question and its points are in the score.
C26_Witness ==
  /\ response = Err("submit", "Conflict")
  /\ Quiescent
  /\ trivia.status = "IN_PROGRESS"
  /\ \E p \in Pids :
       /\ Cardinality(AnswersOf(p)) = 1
       /\ participations[p].score > 0
       /\ participations[p].score = SumPoints(AnswersOf(p))

\* C27: a Join on a DRAFT trivia changes the status to LOBBY and writes the
\* joiner's participation in one step: in the state its change of status
\* leaves, the joiner has a READY participation.
C27_JoinFlipsAndJoinsAtOnce ==
  [][\A i \in Procs :
       (JoinFlip(i) /\ trivia'.status = "LOBBY")
         => \E p \in DOMAIN participations' :
              /\ participations'[p].user = req[i].user
              /\ participations'[p].status = "READY"]_vars

\* C28: an Advance is refused NotFound without a trivia, Forbidden from a
\* caller who is not the creator, InvalidState unless the trivia is
\* IN_PROGRESS, and a refused Advance writes nothing.  An accepted Advance
\* with index + 1 below the number of bindings raises the index by one,
\* sets question_started_at to its own time and keeps IN_PROGRESS; any
\* other accepted Advance sets FINISHED, clears question_started_at, sets
\* finished_at and keeps the index.  It writes nothing else.
C28_AdvanceGuardsAndEffect ==
  [][\A i \in Procs :
       LET refused(kind) == /\ response' = Err("advance", kind)
                            /\ trivia' = trivia
                            /\ req' = req
           effect(tv, t) ==
             IF tv.current_question_index + 1 < nBindings
             THEN [tv EXCEPT !.current_question_index =
                               tv.current_question_index + 1,
                             !.question_started_at = t]
             ELSE [tv EXCEPT !.status = "FINISHED",
                             !.question_started_at = Null,
                             !.finished_at = Stamp]
       IN
       /\ \A c \in {Admin, 1} :
            AdvanceGet(i, c) =>
              IF trivia = NoRow THEN refused("NotFound")
              ELSE IF c # Admin THEN refused("Forbidden")
              ELSE IF trivia.status # "IN_PROGRESS"
                THEN refused("InvalidState")
              ELSE /\ trivia' = trivia
                   /\ req'[i].pc = "advance_update"
                   /\ Flush(trivia, req'[i].loc.ws) = effect(trivia, now)
       /\ AdvanceUpdate(i) =>
            /\ trivia.status = "IN_PROGRESS"
            /\ trivia' = Flush(trivia, req[i].loc.ws)
            /\ \E t \in Instants : t <= now /\ trivia' = effect(trivia, t)
            /\ response'.err = "none"
            /\ response'.val.status = trivia'.status
            /\ response'.val.current_question_index =
                 trivia'.current_question_index
            /\ UNCHANGED <<participations, answers, nBindings>>]_vars

\* C28 witness: an Advance at a later instant moved a trivia of two
\* questions from the first to the second and restarted the clock.
C28_Witness ==
  /\ response # NoRow
  /\ response.op = "advance"
  /\ response.err = "none"
  /\ response.val.status = "IN_PROGRESS"
  /\ response.val.current_question_index = 1
  /\ trivia.status = "IN_PROGRESS"
  /\ trivia.current_question_index = 1
  /\ trivia.question_started_at > trivia.started_at
  /\ trivia.finished_at = Null

\* C29: a 50/50 call is accepted exactly when the trivia is IN_PROGRESS, the
\* caller has a participation whose fifty_fifty_used is false, the
\* addressed question is the one of the current binding, the participation
\* has no Answer for that binding, and the question has four options or
\* more of which exactly one is correct; a call that is not accepted
\* answers with an error and leaves every participation, its
\* fifty_fifty_used and fifty_fifty_question_id included, as it was.
C29_FiftyPreconditions ==
  [][\A i \in Procs, u \in Players, q \in Questions :
       FiftyGet(i, u, q) =>
         LET mine == {p \in Pids : participations[p].user = u}
             k == trivia.current_question_index
             allowed ==
               /\ trivia # NoRow
               /\ trivia.status = "IN_PROGRESS"
               /\ \E p \in mine : ~participations[p].fifty_fifty_used
               /\ k \in 0..(nBindings - 1)
               /\ BindingAt(k).question_id = q
               /\ \A p \in mine : \A a \in answers :
                    ~(/\ a.participation_id = p
                      /\ a.trivia_question_id = BindingAt(k).id)
               /\ Cardinality(OptionsOf(q)) >= 4
               /\ Cardinality({o \in OptionsOf(q) : OptionIsCorrect(o)}) = 1
         IN
         IF allowed
         THEN /\ req'[i].pc = "fifty_save"
              /\ response' = NoRow
         ELSE /\ response' # NoRow
              /\ response'.op = "fifty"
              /\ response'.err # "none"
              /\ req' = req
              /\ participations' = participations]_vars

\* C29 witness: the participant, who has not used the lifeline and has not
\* answered, called it on the third question, the one with three options,
\* and was refused; the lifeline columns are as they were.
C29_Witness ==
  /\ response = Err("fifty", "InvalidState")
  /\ trivia.status = "IN_PROGRESS"
  /\ trivia.current_question_index = MaxScored - 1
  /\ Cardinality(OptionsOf(MaxScored)) < 4
  /\ ~participations[1].fifty_fifty_used
  /\ participations[1].fifty_fifty_question_id = Null
  /\ AnswersOf(1) = {}

C31_LobbySnapshot ==
  (response # NoRow /\ response.op \in {"admin_lobby", "lobby"}
     /\ response.err = "none") =>
    LET v == response.val
        listed == {k \in DOMAIN v.players : TRUE}
    IN
    /\ Len(v.players) = Len(participations)
    /\ \A p \in Pids : \E k \in listed :
         LET row == participations[p]
             e == v.players[k]
         IN /\ e.user_id = row.user
            /\ e.present <=>
                 (row.last_seen_at # Null
                    /\ now - row.last_seen_at <= PRESENCE_TTL_SECONDS)
            /\ e.ready <=> (row.status = "READY")
    /\ response.op = "admin_lobby" =>
         /\ v.assigned_count = Len(participations)
         /\ v.present_count =
              Cardinality({k \in listed : v.players[k].present})
         /\ v.ready_count =
              Cardinality({k \in listed : v.players[k].ready})

\* C31 witness: an admin view of three participations: one seen exactly
\* PRESENCE_TTL_SECONDS ago and READY (present), one seen longer ago (not
\* present), one invited and never seen (neither present nor ready).
C31_Witness ==
  /\ response # NoRow
  /\ response.op = "admin_lobby"
  /\ response.err = "none"
  /\ response.val.assigned_count = 3
  /\ response.val.present_count = 1
  /\ response.val.ready_count = 2
  /\ \E p, q, r \in Pids :
       /\ now - participations[p].last_seen_at = PRESENCE_TTL_SECONDS
       /\ participations[p].status = "READY"
       /\ participations[q].last_seen_at # Null
       /\ now - participations[q].last_seen_at > PRESENCE_TTL_SECONDS
       /\ participations[r].last_seen_at = Null
       /\ participations[r].status = "INVITED"

\* C32: the player list of a lobby snapshot is sorted by name ascending,
\* and players of equal name are ordered by user id, in whatever order the
\* storage returned the participations.
C32_PlayersSortedByNameThenId ==
  (response # NoRow /\ response.op \in {"admin_lobby", "lobby"}
     /\ response.err = "none") =>
    LET players == response.val.players IN
    \A j, k \in DOMAIN players :
      j < k =>
        \/ players[j].name < players[k].name
        \/ /\ players[j].name = players[k].name
           /\ players[j].user_id < players[k].user_id

\* C33: a request for the event stream of trivia tv with token t is
\* accepted only if create-ticket issued t, the expiry of t has not passed
\* and t was issued for tv; the client it subscribes carries the trivia and
\* the user the ticket was issued for and joins the subscribers of that
\* trivia and of no other; a refused request subscribes nobody, and a
\* valid ticket presented for another trivia is refused as Forbidden.
C33_TicketAdmitsOnlyItsTrivia ==
  [][\A c \in ClientIds, tv \in TriviaIds, t \in Tokens :
       stream_trivia_events(c, tv, t) =>
         LET issued == tickets[t] \notin {NoRow, Gone}
             valid == issued /\ now <= tickets[t].expires_at
         IN
         /\ response'.err = "none" =>
              /\ valid
              /\ tickets[t].trivia_id = tv
              /\ stream'[c].trivia_id = tickets[t].trivia_id
              /\ stream'[c].user_id = tickets[t].user_id
              /\ clients' = [clients EXCEPT
                               ![tickets[t].trivia_id] = @ \cup {c}]
         /\ response'.err # "none" =>
              /\ clients' = clients
              /\ stream' = stream
         /\ ~valid => response' = Err("events", "Unauthorized")
         /\ (valid /\ tickets[t].trivia_id # tv) =>
              response' = Err("events", "Forbidden")]_vars

\* C33 witness: a ticket of trivia 1 that has not expired was presented for
\* trivia 2 and refused; trivia 2 has no subscriber, and a client admitted
\* through that ticket is subscribed to trivia 1.
C33_Witness ==
  /\ response = Err("events", "Forbidden")
  /\ clients[2] = {}
  /\ \E c \in clients[1] :
       /\ stream[c].trivia_id = 1
       /\ tickets[stream[c].ticket] \notin {NoRow, Gone}
       /\ tickets[stream[c].ticket].trivia_id = 1
       /\ now <= tickets[stream[c].ticket].expires_at
  /\ \A t \in Tokens :
       tickets[t] \notin {NoRow, Gone} => tickets[t].trivia_id = 1

\* C34: a ticket whose expiry has passed is eventually removed from the
\* ticket store, whether or not anybody presents it for validation.
C34_ExpiredTicketsSwept ==
  \A t \in Tokens :
    (tickets[t] \notin {NoRow, Gone} /\ now > tickets[t].expires_at)
      ~> (tickets[t] \in {NoRow, Gone})

\* C35: on a participation of a LOBBY trivia an accepted SetReady leaves
\* what a Join leaves: status READY with joined_at, ready_at and
\* last_seen_at set; so a Start of the creator that finds a single
\* participation, READY, is not refused.
C35_SetReadyLikeJoin ==
  [][\A i \in Procs :
       /\ SetReadySave(i) =>
            LET row == participations'[req[i].loc.pid] IN
            /\ row.status = "READY"
            /\ row.ready_at # Null
            /\ row.joined_at # Null
            /\ row.last_seen_at # Null
       /\ (StartList(i) /\ Len(participations) = 1
             /\ participations[1].status = "READY") =>
            /\ response' = NoRow
            /\ req'[i].pc = "start_update"]_vars

\* the status_updated events on the queue of client c, in queue order
StatusUpdates(c) ==
  SelectSeq(queue[c], LAMBDA e : e.event = "status_updated")

\* C36: when no request is in flight and the committed status of the trivia
\* is IN_PROGRESS, the last status_updated event that a subscriber of the
\* trivia was sent does not say WAITING.
C36_LastStatusIsCommitted ==
  (Quiescent /\ trivia.status = "IN_PROGRESS") =>
    \A c \in clients[trivia.id] :
      StatusUpdates(c) # <<>> =>
        StatusUpdates(c)[Len(StatusUpdates(c))].data.state # "WAITING"

\* C37: a Start of the creator on a LOBBY trivia goes ahead to IN_PROGRESS
\* at index 0, with started_at and question_started_at set, whenever at
\* least one participation is READY, whatever the others are; when no
\* participation is READY it fails with InvalidState.
C37_StartNeedsOneReady ==
  [][\A i \in Procs :
       StartList(i) =>
         IF \E p \in Pids : participations[p].status = "READY"
         THEN /\ response' = NoRow
              /\ req'[i].pc = "start_update"
              /\ LET tv == Flush(trivia, req'[i].loc.ws) IN
                 /\ tv.status = "IN_PROGRESS"
                 /\ tv.current_question_index = 0
                 /\ tv.started_at # Null
                 /\ tv.question_started_at # Null
         ELSE response' = Err("start", "InvalidState")]_vars

\* C38: whenever the trivia is IN_PROGRESS its current_question_index is
\* less than the number of its bindings, so BindingAt of that index is a
\* binding; in particular a trivia with no binding is never IN_PROGRESS.
C38_CurrentQuestionExists ==
  (trivia # NoRow /\ trivia.status = "IN_PROGRESS") =>
    /\ trivia.current_question_index < nBindings
    /\ BindingAt(trivia.current_question_index) # NoRow

\* C39: while the trivia is FINISHED, a step that is not part of a Reset
\* creates no Answer and changes no participation's score.
C39_FinishedIsFrozen ==
  [][(/\ trivia.status = "FINISHED"
      /\ \A i \in Procs : ~ResetDelete(i) /\ ~ResetCommit(i))
     => /\ answers' \subseteq answers
        /\ \A p \in Pids :
             participations'[p].score = participations[p].score]_vars

====
